---- MODULE Spec2Model ----
(***************************************************************************)
(* A model of the model-synchronization core of openscad-viewer            *)
(* (src/index.js): the compile / parse / watch / broadcast pipeline and    *)
(* the request-response correlation with the browser peers.                *)
(*                                                                         *)
(* JavaScript strings (paths, source text) are sequences of one-character  *)
(* strings; Buffers (file contents) are sequences of bytes 0..255.         *)
(* An optional value (null or a value) is <<>> or <<value>>.               *)
(***************************************************************************)
EXTENDS Integers, Sequences, FiniteSets, TLC

None == <<>>
Some(x) == <<x>>

Last(s) == s[Len(s)]

(***************************************************************************)
(* Characters and bytes.                                                   *)
(***************************************************************************)

\* The printable ASCII characters, code 32 (space) to code 126, in order
\* (code 96, which a TLA+ string cannot hold, is written GRAVE).
Printable ==
  << " ", "!", "\"", "#", "$", "%", "&", "'", "(", ")", "*", "+", ",", "-", ".", "/",
     "0", "1", "2", "3", "4", "5", "6", "7", "8", "9", ":", ";", "<", "=", ">", "?",
     "@", "A", "B", "C", "D", "E", "F", "G", "H", "I", "J", "K", "L", "M", "N", "O",
     "P", "Q", "R", "S", "T", "U", "V", "W", "X", "Y", "Z", "[", "\\", "]", "^", "_",
     "GRAVE", "a", "b", "c", "d", "e", "f", "g", "h", "i", "j", "k", "l", "m", "n", "o",
     "p", "q", "r", "s", "t", "u", "v", "w", "x", "y", "z", "{", "|", "}", "~" >>

\* The character the utf8 decoder yields for a byte that is no ASCII text.
Replacement == "U+FFFD"

\* String.fromCharCode of one decoded byte (buffer.toString('utf8'), byte-wise:
\* bytes >= 128 and the control characters other than \t \n \r decode to
\* characters that no pattern of this program matches).
Chr(b) ==
  IF b >= 32 /\ b <= 126 THEN Printable[b - 31]
  ELSE IF b = 9 THEN "\t"
  ELSE IF b = 10 THEN "\n"
  ELSE IF b = 13 THEN "\r"
  ELSE Replacement

\* The byte of an ASCII character (Buffer.from(text, 'utf8')).
Ord(c) ==
  IF c = "\t" THEN 9
  ELSE IF c = "\n" THEN 10
  ELSE IF c = "\r" THEN 13
  ELSE 31 + (CHOOSE i \in 1..Len(Printable) : Printable[i] = c)

\* buffer.toString('utf8') / fs.readFileSync(path, 'utf8')
Utf8Decode(bytes) == [i \in 1..Len(bytes) |-> Chr(bytes[i])]

\* Buffer.from(text, 'utf8') for ASCII text
Utf8Encode(text) == [i \in 1..Len(text) |-> Ord(text[i])]

IsDigit(c) == c \in {"0", "1", "2", "3", "4", "5", "6", "7", "8", "9"}

\* String.prototype.toLowerCase, character-wise
LowerChar(c) ==
  IF \E i \in 34..59 : Printable[i] = c
  THEN Printable[(CHOOSE i \in 34..59 : Printable[i] = c) + 32]
  ELSE c

ToLowerCase(s) == [i \in 1..Len(s) |-> LowerChar(s[i])]

\* s.startsWith(lit) at the 1-based position i
MatchAt(s, i, lit) ==
  /\ i + Len(lit) - 1 <= Len(s)
  /\ \A k \in 1..Len(lit) : s[i + k - 1] = lit[k]

\* The first position >= i of s whose character does not satisfy the class
\* chosen by inClass (a set of characters), or Len(s)+1.
RECURSIVE SkipWhile(_, _, _)
SkipWhile(s, i, class) ==
  IF i <= Len(s) /\ s[i] \in class THEN SkipWhile(s, i + 1, class) ELSE i

(***************************************************************************)
(* Node's path module (POSIX).                                             *)
(***************************************************************************)

\* The process's working directory.
Cwd == << "/", "w" >>

\* The index of the last "/" of p, or 0.
RECURSIVE LastIndexOf(_, _, _)
LastIndexOf(p, c, i) ==
  IF i = 0 THEN 0 ELSE IF p[i] = c THEN i ELSE LastIndexOf(p, c, i - 1)

\* The segments of a path between its "/" separators, from position i.
RECURSIVE Segments(_, _, _)
Segments(p, i, cur) ==
  IF i > Len(p) THEN << cur >>
  ELSE IF p[i] = "/" THEN << cur >> \o Segments(p, i + 1, << >>)
  ELSE Segments(p, i + 1, Append(cur, p[i]))

\* Drop "" and "." segments; ".." removes the segment before it.
RECURSIVE NormalizeSegs(_, _)
NormalizeSegs(segs, acc) ==
  IF segs = << >> THEN acc
  ELSE LET s == Head(segs) IN
       IF s = << >> \/ s = << "." >> THEN NormalizeSegs(Tail(segs), acc)
       ELSE IF s = << ".", "." >>
            THEN NormalizeSegs(Tail(segs),
                               IF acc = << >> THEN acc ELSE SubSeq(acc, 1, Len(acc) - 1))
            ELSE NormalizeSegs(Tail(segs), Append(acc, s))

RECURSIVE JoinSegs(_)
JoinSegs(segs) ==
  IF segs = << >> THEN << >> ELSE << "/" >> \o Head(segs) \o JoinSegs(Tail(segs))

\* path.resolve(from, to): an absolute `to` stands alone, a relative one is
\* taken below `from` (itself resolved against the working directory); the
\* result is normalized and absolute.
PathResolve2(from, to) ==
  LET base == IF from # << >> /\ from[1] = "/" THEN from ELSE Cwd \o << "/" >> \o from
      full == IF to # << >> /\ to[1] = "/" THEN to ELSE base \o << "/" >> \o to
      segs == NormalizeSegs(Segments(full, 1, << >>), << >>)
  IN IF segs = << >> THEN << "/" >> ELSE JoinSegs(segs)

\* path.resolve(p)
PathResolve(p) == PathResolve2(Cwd, p)

\* path.basename(p), of a path without trailing separators
Basename(p) == SubSeq(p, LastIndexOf(p, "/", Len(p)) + 1, Len(p))

\* path.dirname(p), of a path without trailing separators
Dirname(p) ==
  LET k == LastIndexOf(p, "/", Len(p)) IN
  IF k = 0 THEN << "." >> ELSE IF k = 1 THEN << "/" >> ELSE SubSeq(p, 1, k - 1)

\* path.extname(p): from the last "." of the basename to its end; empty when
\* there is none or when the basename only starts with its single ".".
Extname(p) ==
  LET b == Basename(p)
      k == LastIndexOf(b, ".", Len(b))
  IN IF k <= 1 THEN << >> ELSE SubSeq(b, k, Len(b))

ExtScad == << ".", "s", "c", "a", "d" >>
ExtStl == << ".", "s", "t", "l" >>

(***************************************************************************)
(* JavaScript numbers.  A number is NaN, an infinity, or the finite value  *)
(* (-1)^neg * m * 2^e with m odd (m = 0, e = 0 for the two zeros): every   *)
(* 32-bit float is such a value, exactly.                                  *)
(***************************************************************************)

NaN == [k |-> "nan", neg |-> FALSE, m |-> 0, e |-> 0]
PosInf == [k |-> "inf", neg |-> FALSE, m |-> 0, e |-> 0]
NegInf == [k |-> "inf", neg |-> TRUE, m |-> 0, e |-> 0]

RECURSIVE Pow(_, _)
Pow(b, n) == IF n <= 0 THEN 1 ELSE b * Pow(b, n - 1)

RECURSIVE BitLen(_)
BitLen(m) == IF m = 0 THEN 0 ELSE 1 + BitLen(m \div 2)

\* The finite number (-1)^neg * m * 2^e, with its mantissa made odd.
RECURSIVE Finite(_, _, _)
Finite(neg, m, e) ==
  IF m = 0 THEN [k |-> "fin", neg |-> neg, m |-> 0, e |-> 0]
  ELSE IF m % 2 = 0 THEN Finite(neg, m \div 2, e + 1)
  ELSE [k |-> "fin", neg |-> neg, m |-> m, e |-> e]

\* |a| < |b|, for finite a and b
MagLess(a, b) ==
  IF a.m = 0 THEN b.m # 0
  ELSE IF b.m = 0 THEN FALSE
  ELSE LET ta == BitLen(a.m) + a.e
           tb == BitLen(b.m) + b.e
           lo == IF a.e < b.e THEN a.e ELSE b.e
       IN IF ta # tb THEN ta < tb
          ELSE a.m * Pow(2, a.e - lo) < b.m * Pow(2, b.e - lo)

\* a < b as JavaScript compares numbers that are not NaN (-0 equals +0)
NumLess(a, b) ==
  IF a.k = "inf" THEN a.neg /\ ~(b.k = "inf" /\ b.neg)
  ELSE IF b.k = "inf" THEN ~b.neg
  ELSE IF a.m = 0 /\ b.m = 0 THEN FALSE
  ELSE IF a.neg /\ a.m # 0
       THEN (IF b.neg /\ b.m # 0 THEN MagLess(b, a) ELSE TRUE)
       ELSE (IF b.neg /\ b.m # 0 THEN FALSE ELSE MagLess(a, b))

\* Math.min(a, b): NaN if either is NaN; -0 is smaller than +0
MathMin(a, b) ==
  IF a.k = "nan" \/ b.k = "nan" THEN NaN
  ELSE IF NumLess(a, b) THEN a
  ELSE IF NumLess(b, a) THEN b
  ELSE IF a.neg THEN a ELSE b

\* Math.max(a, b)
MathMax(a, b) ==
  IF a.k = "nan" \/ b.k = "nan" THEN NaN
  ELSE IF NumLess(a, b) THEN b
  ELSE IF NumLess(b, a) THEN a
  ELSE IF a.neg THEN b ELSE a

\* buffer.readFloatLE(off): the IEEE-754 binary32 value of the four bytes at
\* the 0-based offset off, least significant byte first.
ReadFloatLE(buffer, off) ==
  LET b0 == buffer[off + 1]
      b1 == buffer[off + 2]
      b2 == buffer[off + 3]
      b3 == buffer[off + 4]
      neg == b3 >= 128
      ex == (b3 % 128) * 2 + (b2 \div 128)
      fr == (b2 % 128) * 65536 + b1 * 256 + b0
  IN IF ex = 255 THEN (IF fr = 0 THEN (IF neg THEN NegInf ELSE PosInf) ELSE NaN)
     ELSE IF ex = 0 THEN Finite(neg, fr, 0 - 149)
     ELSE Finite(neg, 8388608 + fr, ex - 150)

\* buffer.readUInt32LE(off).  TLC's integers end at 2^31 - 1: a count of 2^31
\* or more is read as 2^31 - 1, which the size check of parseStlBoundingBox
\* rejects as it rejects the true count.
ReadUInt32LE(buffer, off) ==
  LET b0 == buffer[off + 1]
      b1 == buffer[off + 2]
      b2 == buffer[off + 3]
      b3 == buffer[off + 4]
  IN IF b3 >= 128 THEN 2147483647
     ELSE b0 + 256 * b1 + 65536 * b2 + 16777216 * b3

\* The value of a run of decimal digits.
RECURSIVE DigitsValue(_, _)
DigitsValue(ds, acc) ==
  IF ds = << >> THEN acc
  ELSE DigitsValue(Tail(ds), 10 * acc + (Ord(Head(ds)) - 48))

\* The number n * 10^x of a decimal literal.  Defined where that value is a
\* dyadic rational (every short literal a mesh in this model holds); other
\* literals round to the nearest double, which the model does not represent.
DecimalValue(neg, n, x) ==
  CASE n = 0 -> Finite(neg, 0, 0)
    [] n # 0 /\ x >= 0 -> Finite(neg, n * Pow(10, x), 0)
    [] n # 0 /\ x < 0 /\ n % Pow(5, 0 - x) = 0 -> Finite(neg, n \div Pow(5, 0 - x), x)

DigitChars == {"0", "1", "2", "3", "4", "5", "6", "7", "8", "9"}

\* parseFloat(tok): the longest prefix of tok that is a decimal literal
\* (sign, digits, fraction, exponent), NaN when there is none.  The steps
\* hand the positions they find to the next one: p0 the first digit, p1 the
\* end of the integer digits, p2 the end of the fraction, e0 and e1 the
\* digits of the exponent.
ExponentValue(tok, p2, e0, e1) ==
  IF e1 = e0 THEN 0
  ELSE IF tok[p2 + 1] = "-" THEN 0 - DigitsValue(SubSeq(tok, e0, e1 - 1), 0)
  ELSE DigitsValue(SubSeq(tok, e0, e1 - 1), 0)

ExponentDigits(tok, p2, e0) == ExponentValue(tok, p2, e0, SkipWhile(tok, e0, DigitChars))

Exponent(tok, p2) ==
  IF p2 <= Len(tok) /\ tok[p2] \in {"e", "E"}
  THEN ExponentDigits(tok, p2,
                      IF p2 + 1 <= Len(tok) /\ tok[p2 + 1] \in {"+", "-"} THEN p2 + 2 ELSE p2 + 1)
  ELSE 0

ParseFloat3(tok, neg, p0, p1, p2) ==
  LET fracDs == IF p2 > p1 THEN SubSeq(tok, p1 + 1, p2 - 1) ELSE << >> IN
  IF (p1 - p0) + Len(fracDs) = 0 THEN NaN
  ELSE DecimalValue(neg, DigitsValue(SubSeq(tok, p0, p1 - 1) \o fracDs, 0),
                    Exponent(tok, p2) - Len(fracDs))

ParseFloat2(tok, neg, p0, p1) ==
  ParseFloat3(tok, neg, p0, p1,
              IF p1 <= Len(tok) /\ tok[p1] = "." THEN SkipWhile(tok, p1 + 1, DigitChars) ELSE p1)

ParseFloat1(tok, neg, p0) == ParseFloat2(tok, neg, p0, SkipWhile(tok, p0, DigitChars))

ParseFloat(tok) ==
  ParseFloat1(tok, tok # << >> /\ tok[1] = "-",
              IF tok # << >> /\ tok[1] \in {"+", "-"} THEN 2 ELSE 1)

(***************************************************************************)
(* STL bounding-box parser (binary + ASCII): parseStlBoundingBox.          *)
(***************************************************************************)

\* A box {min, max}: triples of numbers.
EmptyBox == [min |-> << PosInf, PosInf, PosInf >>, max |-> << NegInf, NegInf, NegInf >>]

\* min[i] = Math.min(min[i], c); max[i] = Math.max(max[i], c) for the three axes
FoldVertex(box, x, y, z) ==
  [min |-> << MathMin(box.min[1], x), MathMin(box.min[2], y), MathMin(box.min[3], z) >>,
   max |-> << MathMax(box.max[1], x), MathMax(box.max[2], y), MathMax(box.max[3], z) >>]

\* The loops over the triangles i and their vertices v, as one loop over
\* j = 3 * i + v.
RECURSIVE BinaryScan(_, _, _, _)
BinaryScan(buffer, numTriangles, j, box) ==
  IF j >= 3 * numTriangles THEN box
  ELSE LET base == 84 + (j \div 3) * 50 + 12
           off == base + (j % 3) * 12
       IN BinaryScan(buffer, numTriangles, j + 1,
                     FoldVertex(box, ReadFloatLE(buffer, off),
                                ReadFloatLE(buffer, off + 4),
                                ReadFloatLE(buffer, off + 8)))

VertexWord == << "v", "e", "r", "t", "e", "x" >>
NumberChars == {"0", "1", "2", "3", "4", "5", "6", "7", "8", "9", "-", ".", "e", "E", "+"}
SpaceChars == {" ", "\t", "\n", "\r"}

\* \s+([-\d.eE+]+) from position p: a run of spaces from p to a, then a run
\* of number characters from a to b.  The two classes are disjoint, so each
\* run is taken whole.
TokenSpan(text, p, a, b) ==
  [ok |-> a > p /\ b > a, tok |-> SubSeq(text, a, b - 1), end |-> b]

TokenFrom(text, p, a) == TokenSpan(text, p, a, SkipWhile(text, a, NumberChars))

NextToken(text, p) == TokenFrom(text, p, SkipWhile(text, p, SpaceChars))

\* while ((m = re.exec(text)) !== null) { fold the three parsed numbers }
\* with re = /vertex\s+([-\d.eE+]+)\s+([-\d.eE+]+)\s+([-\d.eE+]+)/g: the
\* match is tried at the first occurrence of the word from i on and, where
\* it fails, from the next position; after a match the search goes on at
\* its end.
RECURSIVE AsciiScan(_, _, _)
RECURSIVE AsciiToken1(_, _, _, _)
RECURSIVE AsciiToken2(_, _, _, _, _)
RECURSIVE AsciiToken3(_, _, _, _, _, _)
AsciiToken3(text, i, box, t1, t2, t3) ==
  IF ~t3.ok THEN AsciiScan(text, i + 1, box)
  ELSE AsciiScan(text, t3.end,
                 FoldVertex(box, ParseFloat(t1.tok), ParseFloat(t2.tok), ParseFloat(t3.tok)))

AsciiToken2(text, i, box, t1, t2) ==
  IF ~t2.ok THEN AsciiScan(text, i + 1, box)
  ELSE AsciiToken3(text, i, box, t1, t2, NextToken(text, t2.end))

AsciiToken1(text, i, box, t1) ==
  IF ~t1.ok THEN AsciiScan(text, i + 1, box)
  ELSE AsciiToken2(text, i, box, t1, NextToken(text, t1.end))

\* The least number of a set of positions that is not empty.
First(hits) == CHOOSE k \in hits : \A other \in hits : k <= other

AsciiWordAt(text, box, hits) ==
  IF hits = {} THEN box
  ELSE AsciiToken1(text, First(hits), box, NextToken(text, First(hits) + 6))

AsciiScan(text, i, box) ==
  AsciiWordAt(text, box, {k \in i..Len(text) : MatchAt(text, k, VertexWord)})

\* numTriangles > 0 && buffer.length >= 84 + numTriangles * 50, the size
\* check written n <= (buffer.length - 84) / 50 (integer division), which is
\* the same for buffer.length >= 84 and does not overflow.
CountFits(buffer, numTriangles) ==
  numTriangles > 0 /\ numTriangles <= (Len(buffer) - 84) \div 50

\* if (min[0] !== Infinity) return { min, max }; otherwise the ASCII
\* fallback goes on with the min and max of the binary scan.
AfterBinaryScan(buffer, box) ==
  IF box.min[1] # PosInf THEN box ELSE AsciiScan(Utf8Decode(buffer), 1, box)

\* parseStlBoundingBox(buffer)
parseStlBoundingBox(buffer) ==
  IF Len(buffer) >= 84 /\ CountFits(buffer, ReadUInt32LE(buffer, 80))
  THEN AfterBinaryScan(buffer, BinaryScan(buffer, ReadUInt32LE(buffer, 80), 0, EmptyBox))
  ELSE AsciiScan(Utf8Decode(buffer), 1, EmptyBox)

(***************************************************************************)
(* Dependency parsing for .scad files: the pattern of                      *)
(* parseScadDependencies.                                                  *)
(***************************************************************************)

IncludeWord == << "i", "n", "c", "l", "u", "d", "e" >>
UseWord == << "u", "s", "e" >>

\* The first position >= i of s holding the character c, or Len(s)+1.
RECURSIVE IndexFrom(_, _, _)
IndexFrom(s, i, c) ==
  IF i <= Len(s) /\ s[i] # c THEN IndexFrom(s, i + 1, c) ELSE i

\* Every m[1] of /(?:include|use)\s*<([^>]+)>/g in content, in order: the
\* keyword at i, spaces up to lt, "<" at lt, at least one character other
\* than ">" up to gt, ">" at gt.  The search goes on after a match at gt + 1,
\* and otherwise at i + 1.
RECURSIVE ScanReferences(_, _)
RECURSIVE ReferenceOpen(_, _, _)
RECURSIVE ReferenceClose(_, _, _, _)
ReferenceClose(content, i, lt, gt) ==
  IF gt <= Len(content) /\ gt > lt + 1
  THEN << SubSeq(content, lt + 1, gt - 1) >> \o ScanReferences(content, gt + 1)
  ELSE ScanReferences(content, i + 1)

ReferenceOpen(content, i, lt) ==
  IF lt <= Len(content) /\ content[lt] = "<"
  THEN ReferenceClose(content, i, lt, IndexFrom(content, lt + 1, ">"))
  ELSE ScanReferences(content, i + 1)

ScanReferences(content, i) ==
  IF i > Len(content) THEN << >>
  ELSE IF MatchAt(content, i, IncludeWord)
  THEN ReferenceOpen(content, i, SkipWhile(content, i + 7, SpaceChars))
  ELSE IF MatchAt(content, i, UseWord)
  THEN ReferenceOpen(content, i, SkipWhile(content, i + 3, SpaceChars))
  ELSE ScanReferences(content, i + 1)

(***************************************************************************)
(* The files and inputs of the model.                                      *)
(***************************************************************************)

\* Bounds of the model.
MaxOpens == 2
MaxEdits == 2
MaxPeers == 2
MaxRequests == 2

\* setTimeout(..., 300) of setupWatcher's change handler, in milliseconds.
DebounceMs == 300

\* The default timeoutMs of sendAndWait, in milliseconds.
DefaultTimeoutMs == 10000

\* readyState of a socket of the ws library.
OPEN == 1
CLOSING == 2
CLOSED == 3

\* The steps in which time advances: a third of the debounce window while
\* files change, half of the request timeout while requests wait.
TickMs == DebounceMs \div 3
HalfTimeoutMs == DefaultTimeoutMs \div 2

FileA == << "/", "w", "/", "a", ".", "s", "c", "a", "d" >>
FileB == << "/", "w", "/", "b", ".", "S", "T", "L" >>
FileC == << "/", "w", "/", "c", ".", "t", "x", "t" >>
\* The file a.scad refers to: use <l>
FileL == << "/", "w", "/", "l" >>

\* The paths Open is called with: relative and absolute, existing and not,
\* of supported and unsupported kinds.
OpenArgs ==
  { << "a", ".", "s", "c", "a", "d" >>,
    FileB,
    << "c", ".", "t", "x", "t" >>,
    << "n", ".", "s", "c", "a", "d" >>,
    << "n", ".", "t", "x", "t" >> }

\* Sources of a.scad: two that compile (the second refers to nothing), one
\* the tool rejects, one on which the tool runs into its timeout.
Scad1 == Utf8Encode(<< "u", "s", "e", " ", "<", "l", ">", "1" >>)
Scad2 == Utf8Encode(<< "2" >>)
ScadBad == Utf8Encode(<< "u", "s", "e", "<", "l", ">", "!" >>)
ScadHang == Utf8Encode(<< "@" >>)

\* Contents of b.STL (text meshes of one vertex).
Stl1 == Utf8Encode(<< "v", "e", "r", "t", "e", "x", " ", "0", " ", "5", " ", "0" >>)
Stl2 == Utf8Encode(<< "v", "e", "r", "t", "e", "x", " ", "0", " ", "6", " ", "0" >>)

\* What the environment may write to a file.
Versions(f) ==
  IF f = FileA THEN {Scad1, Scad2, ScadBad, ScadHang}
  ELSE IF f = FileB THEN {Stl1, Stl2}
  ELSE IF f = FileL THEN {<< 49 >>, << 50 >>}
  ELSE {}

Range(s) == {s[i] : i \in 1..Len(s)}

\* The external tool, `openscad -o out src`, as a function of the source: it
\* fails with a diagnostic on stderr for a source holding "!", is killed by
\* the 60 s timeout (nothing on stderr) for one holding "@", and otherwise
\* writes a mesh whose vertex carries the last character of the source.
Openscad(src) ==
  LET text == Utf8Decode(src)
      d == IF text # << >> /\ IsDigit(Last(text)) THEN Last(text) ELSE "0"
  IN IF "!" \in Range(text)
     THEN [ok |-> FALSE, stderr |-> << "E", "R", "R" >>,
           message |-> << "f", "a", "i", "l", "e", "d" >>, stl |-> << >>]
     ELSE IF "@" \in Range(text)
     THEN [ok |-> FALSE, stderr |-> << >>,
           message |-> << "k", "i", "l", "l", "e", "d" >>, stl |-> << >>]
     ELSE [ok |-> TRUE, stderr |-> << >>, message |-> << >>,
           stl |-> Utf8Encode(<< "v", "e", "r", "t", "e", "x", " ", d, " ", "0", " ", "0" >>)]

\* String(n) for n >= 0
RECURSIVE ToDecimal(_)
ToDecimal(n) ==
  IF n < 10 THEN << Printable[17 + n] >>
  ELSE Append(ToDecimal(n \div 10), Printable[17 + (n % 10)])

\* path.join(os.tmpdir(), `openscad-viewer-${stamp}.stl`), with the directory
\* and the prefix shortened to /t and o-.
TmpStl(stamp) ==
  << "/", "t", "/", "o", "-" >> \o ToDecimal(stamp) \o << ".", "s", "t", "l" >>

(***************************************************************************)
(* State.                                                                  *)
(***************************************************************************)

VARIABLES
  currentFile,       \* null or the absolute path of the active source
  currentStlPath,    \* null or the path of the mesh artifact
  currentStlBuffer,  \* null or the bytes of the mesh artifact
  lastBoundingBox,   \* null or the box of the artifact
  watcher,           \* null or the files the live chokidar watcher watches
  debounceTimer,     \* null or the handle of the last debounce timeout
  wsClients,         \* the connected sockets, in insertion order
  readyState,        \* readyState of each socket that ever connected
  pendingRequests,   \* requestId -> the timeout handle its entry clears
  requestIdCounter,
  timeouts,          \* the armed timeouts of the process (Node's timer list)
  promises,          \* requestId -> the promise sendAndWait returned
  fs,                \* the disk: path -> bytes of the files that exist
  toolOk,            \* whether `openscad --version` succeeds
  clock,             \* Date.now(): last reading, and whether time moved since
  tasks,             \* the openFile / handleFileChange calls in flight, in start order
  last,              \* null or what ran in the last step, with the state before it
  sent,              \* the ws.send calls of the last step: <<socket, data>>
  hist               \* counters of the run (not program state)

model == << currentFile, currentStlPath, currentStlBuffer, lastBoundingBox >>
chan == << wsClients, readyState, pendingRequests, requestIdCounter, promises >>
vars == << currentFile, currentStlPath, currentStlBuffer, lastBoundingBox, watcher,
           debounceTimer, wsClients, readyState, pendingRequests, requestIdCounter,
           timeouts, promises, fs, toolOk, clock, tasks, last, sent, hist >>

\* The program state a step starts from.
Snapshot ==
  [file |-> currentFile, path |-> currentStlPath, buffer |-> currentStlBuffer,
   box |-> lastBoundingBox, watcher |-> watcher, pending |-> pendingRequests,
   promises |-> promises, timeouts |-> timeouts, counter |-> requestIdCounter,
   clients |-> wsClients]

\* fs.existsSync(p)
Exists(disk, p) == p \in DOMAIN disk

\* fs.statSync(p).size
FileSize(disk, p) == Len(disk[p])

\* A parseScadDependencies that keeps the references to files that do not
\* exist (a faulty variant).
parseScadDependenciesUnfiltered(disk, scadPath) ==
  IF ~Exists(disk, PathResolve(scadPath)) THEN << >>
  ELSE LET refs == ScanReferences(Utf8Decode(disk[PathResolve(scadPath)]), 1)
       IN [i \in 1..Len(refs) |-> PathResolve2(Dirname(scadPath), refs[i])]

\* parseScadDependencies(scadPath): the references of the source that exist,
\* resolved against its directory; empty when the source cannot be read.
\* The file system takes a relative scadPath from the working directory.
parseScadDependencies(disk, scadPath) ==
  IF ~Exists(disk, PathResolve(scadPath)) THEN << >>
  ELSE LET refs == ScanReferences(Utf8Decode(disk[PathResolve(scadPath)]), 1)
           deps == [i \in 1..Len(refs) |-> PathResolve2(Dirname(scadPath), refs[i])]
       IN SelectSeq(deps, LAMBDA dep : Exists(disk, dep))

\* The files setupWatcher(filePath) hands to chokidar.watch.
WatchedFiles(disk, filePath) ==
  << filePath >> \o
    (IF ToLowerCase(Extname(filePath)) = ExtScad
     THEN parseScadDependencies(disk, filePath) ELSE << >>)

\* A message of the protocol with the browser.
Msg(type, text) == [type |-> type, text |-> text, requestId |-> 0]
ModelUpdated == Msg("model-updated", << >>)
FileInfo(filename) == Msg("file-info", filename)
ErrorMsg(message) == Msg("error", message)
SetCamera == Msg("set-camera", << >>)

\* A broadcast that sends to every socket of wsClients, whatever its state
\* (a faulty variant).
BroadcastToMembers(msg) == [i \in 1..Len(wsClients) |-> << wsClients[i], msg >>]

\* broadcast(msg): one send to every socket of wsClients that is OPEN.
Broadcast(msg) ==
  LET open == SelectSeq(wsClients, LAMBDA ws : readyState[ws] = OPEN)
  IN [i \in 1..Len(open) |-> << open[i], msg >>]

\* The sends of a sequence of broadcasts.
RECURSIVE BroadcastAll(_)
BroadcastAll(msgs) ==
  IF msgs = << >> THEN << >> ELSE Broadcast(Head(msgs)) \o BroadcastAll(Tail(msgs))

\* Date.now(): a new reading if time moved since the last one.
DateNow == IF clock.fresh THEN clock.stamp + 1 ELSE clock.stamp

\* Map.delete(key)
MapDelete(map, key) == [k \in DOMAIN map \ {key} |-> map[k]]

(***************************************************************************)
(* Calls in flight.  A call is suspended at pc: "checkTool" (await          *)
(* checkOpenSCAD), "compile" (await execFileAsync in compileScad) or       *)
(* "read" (await fsp.readFile); it is "done" when it has returned or       *)
(* thrown.  overtaken names the kind of a call that started later and has  *)
(* installed its model since, during the pc this call was then at.         *)
(***************************************************************************)

NoResult ==
  [ok |-> FALSE, error |-> "", detail |-> << >>, file |-> << >>, fileSize |-> 0,
   boundingBox |-> None]

NewCall(kind, arg, absPath) ==
  [kind |-> kind, pc |-> "start", arg |-> arg, abs |-> absPath, tmp |-> << >>,
   rd |-> << >>, res |-> NoResult, out |-> << >>, overtaken |-> "", during |-> ""]

Failure(error, detail) == [NoResult EXCEPT !.error = error, !.detail = detail]

Returned(t, res, out) == [t EXCEPT !.pc = "done", !.res = res, !.out = t.out \o out]

\* The record of a step of call t, which was at pc from when the step began.
Step(t, from) == Some([call |-> t, from |-> from, pre |-> Snapshot])

RemoveAt(s, i) == [j \in 1..(Len(s) - 1) |-> IF j < i THEN s[j] ELSE s[j + 1]]

\* The calls in flight once call i has installed its model and returned.
Overtake(s, i, kind) ==
  RemoveAt([j \in 1..Len(s) |->
              IF j < i THEN [s[j] EXCEPT !.overtaken = kind, !.during = s[j].pc] ELSE s[j]], i)

(***************************************************************************)
(* compileScad and setupWatcher.                                           *)
(***************************************************************************)

\* compileScad(scadPath), to its await: the call now waits for the tool,
\* which writes to a path named after Date.now().
compileScadStart(t, now) == [t EXCEPT !.pc = "compile", !.tmp = TmpStl(now)]

\* compileScad(scadPath), from its await: the tool has run on the source and,
\* if it succeeded, has written its mesh to the temporary path.  error is
\* err.stderr || err.message, empty (null) on success.
compileScadEnd(disk, t) ==
  LET run == Openscad(disk[t.abs])
  IN IF run.ok
     THEN [error |-> << >>, stlPath |-> t.tmp, disk |-> (t.tmp :> run.stl) @@ disk]
     ELSE [error |-> IF run.stderr # << >> THEN run.stderr ELSE run.message,
           stlPath |-> << >>, disk |-> disk]

\* A setupWatcher that leaves the previous watcher open, so that its files
\* are still watched (a faulty variant).
setupWatcherAdding(disk, filePath) ==
  Some((IF watcher = None THEN << >> ELSE watcher[1]) \o WatchedFiles(disk, filePath))

\* setupWatcher(filePath): the previous watcher is closed and a new one
\* watches the file and, for a .scad file, its dependencies.
setupWatcher(disk, filePath) == Some(WatchedFiles(disk, filePath))

\* A clearTimeout that clears nothing (a faulty variant: the properties of
\* the debounce and of the request table must reject it).
ClearTimeoutNoop(ts, handle) == ts

\* clearTimeout(handle) on the timer list; handle may be null or a fired timer
ClearTimeout(ts, handle) ==
  IF handle = None THEN ts ELSE {tm \in ts : tm.id # handle[1]}

\* setTimeout(fn, delay) on the timer list, with handle id
SetTimeout(ts, id, fn, req, delay) ==
  ts \cup {[id |-> id, fn |-> fn, req |-> req, left |-> delay]}

\* A 'change' handler that arms a new timeout without clearing the pending
\* one (a faulty variant).
OnWatcherChangeKeeping(ts, handle, id) ==
  SetTimeout(ts, id, "debounce", 0, DebounceMs)

\* The watcher's 'change' handler: the pending debounce timeout, if any, is
\* cleared and a new one of 300 ms is armed.
OnWatcherChange(ts, handle, id) ==
  SetTimeout(ClearTimeout(ts, handle), id, "debounce", 0, DebounceMs)

(***************************************************************************)
(* openFile.                                                               *)
(***************************************************************************)

ErrNotFound == "File not found"
ErrUnsupported == "Unsupported file type"
ErrNoTool == "OpenSCAD is not installed or not found on $PATH"
ErrCompile == "OpenSCAD compilation failed"

\* The checks in the other order, extension first (a faulty variant).
OpenChecksExtFirst(disk, absPath) ==
  LET ext == ToLowerCase(Extname(absPath)) IN
  IF ext # ExtScad /\ ext # ExtStl THEN Failure(ErrUnsupported, ext)
  ELSE IF ~Exists(disk, absPath) THEN Failure(ErrNotFound, absPath)
  ELSE NoResult

\* The checks of openFile before its first await: the failure they throw, or
\* NoResult.
OpenChecks(disk, absPath) ==
  LET ext == ToLowerCase(Extname(absPath)) IN
  IF ~Exists(disk, absPath) THEN Failure(ErrNotFound, absPath)
  ELSE IF ext # ExtScad /\ ext # ExtStl THEN Failure(ErrUnsupported, ext)
  ELSE NoResult

\* An install that keeps the path as it was given, unresolved (a faulty
\* variant).
OpenInstallUnresolved(disk, t, bytes, box) ==
  [buffer |-> Some(bytes),
   file |-> Some(t.arg),
   box |-> Some(box),
   watcher |-> setupWatcher(disk, t.abs),
   out |-> << ModelUpdated, FileInfo(Basename(t.abs)) >>,
   res |-> [NoResult EXCEPT !.ok = TRUE, !.file = t.abs,
                            !.fileSize = FileSize(disk, t.abs),
                            !.boundingBox = Some(box)]]

\* What openFile does from the await of fsp.readFile to its return: the
\* state it installs, the broadcasts it makes and the result it returns.
OpenInstall(disk, t, bytes, box) ==
  [buffer |-> Some(bytes),
   file |-> Some(t.abs),
   box |-> Some(box),
   watcher |-> setupWatcher(disk, t.abs),
   out |-> << ModelUpdated, FileInfo(Basename(t.abs)) >>,
   res |-> [NoResult EXCEPT !.ok = TRUE, !.file = t.abs,
                            !.fileSize = FileSize(disk, t.abs),
                            !.boundingBox = Some(box)]]

OpenCommit(disk, t, bytes) == OpenInstall(disk, t, bytes, parseStlBoundingBox(bytes))

\* An openFile that looks for the tool whatever the kind of the file (a
\* faulty variant).
OpenStartCheckingTool(filePath) ==
  /\ hist.opens < MaxOpens
  /\ LET absPath == PathResolve(filePath)
         t == NewCall("open", filePath, absPath)
         failed == OpenChecks(fs, absPath)
     IN IF failed.error # ""
        THEN /\ last' = Step(Returned(t, failed, << >>), "start")
             /\ UNCHANGED tasks
        ELSE /\ tasks' = Append(tasks, [t EXCEPT !.pc = "checkTool"])
             /\ last' = Step([t EXCEPT !.pc = "checkTool"], "start")
  /\ hist' = [hist EXCEPT !.opens = @ + 1]
  /\ sent' = << >>
  /\ UNCHANGED << model, watcher, debounceTimer, chan, timeouts, fs, toolOk, clock >>

\* openFile(filePath) is called and runs to its first await (or throws).
OpenStart(filePath) ==
  /\ hist.opens < MaxOpens
  /\ LET absPath == PathResolve(filePath)
         ext == ToLowerCase(Extname(absPath))
         t == NewCall("open", filePath, absPath)
         failed == OpenChecks(fs, absPath)
     IN IF failed.error # ""
        THEN /\ last' = Step(Returned(t, failed, << >>), "start")
             /\ UNCHANGED << tasks, currentStlPath >>
        ELSE IF ext = ExtScad
        THEN /\ tasks' = Append(tasks, [t EXCEPT !.pc = "checkTool"])
             /\ last' = Step([t EXCEPT !.pc = "checkTool"], "start")
             /\ UNCHANGED currentStlPath
        ELSE /\ currentStlPath' = Some(absPath)
             /\ tasks' = Append(tasks, [t EXCEPT !.pc = "read", !.rd = absPath])
             /\ last' = Step([t EXCEPT !.pc = "read", !.rd = absPath], "start")
  /\ hist' = [hist EXCEPT !.opens = @ + 1]
  /\ sent' = << >>
  /\ UNCHANGED << currentFile, currentStlBuffer, lastBoundingBox, watcher, debounceTimer,
                  chan, timeouts, fs, toolOk, clock >>

\* await checkOpenSCAD() returns: the call throws, or starts the compilation.
OpenToolChecked(i) ==
  /\ tasks[i].kind = "open" /\ tasks[i].pc = "checkTool"
  /\ IF ~toolOk
     THEN /\ last' = Step(Returned(tasks[i], Failure(ErrNoTool, << >>), << >>), "checkTool")
          /\ tasks' = RemoveAt(tasks, i)
          /\ UNCHANGED clock
     ELSE /\ tasks' = [tasks EXCEPT ![i] = compileScadStart(@, DateNow)]
          /\ last' = Step(compileScadStart(tasks[i], DateNow), "checkTool")
          /\ clock' = [stamp |-> DateNow, fresh |-> FALSE]
  /\ sent' = << >>
  /\ UNCHANGED << model, watcher, debounceTimer, chan, timeouts, fs, toolOk, hist >>

\* An openFile that closes the watcher when the compilation failed (a
\* faulty variant).
OpenCompiledClosing(i) ==
  /\ tasks[i].kind = "open" /\ tasks[i].pc = "compile"
  /\ LET result == compileScadEnd(fs, tasks[i]) IN
     IF result.error # << >>
     THEN /\ last' = Step(Returned(tasks[i], Failure(ErrCompile, result.error), << >>), "compile")
          /\ tasks' = RemoveAt(tasks, i)
          /\ watcher' = None
          /\ UNCHANGED << fs, currentStlPath >>
     ELSE /\ fs' = result.disk
          /\ currentStlPath' = Some(result.stlPath)
          /\ tasks' = [tasks EXCEPT ![i] = [@ EXCEPT !.pc = "read", !.rd = result.stlPath]]
          /\ last' = Step([tasks[i] EXCEPT !.pc = "read", !.rd = result.stlPath], "compile")
          /\ UNCHANGED watcher
  /\ clock' = [clock EXCEPT !.fresh = TRUE]
  /\ sent' = << >>
  /\ UNCHANGED << currentFile, currentStlBuffer, lastBoundingBox, debounceTimer,
                  chan, timeouts, toolOk, hist >>

\* await compileScad(absPath) returns: the call throws, or starts to read
\* the artifact.
OpenCompiled(i) ==
  /\ tasks[i].kind = "open" /\ tasks[i].pc = "compile"
  /\ LET result == compileScadEnd(fs, tasks[i]) IN
     IF result.error # << >>
     THEN /\ last' = Step(Returned(tasks[i], Failure(ErrCompile, result.error), << >>), "compile")
          /\ tasks' = RemoveAt(tasks, i)
          /\ UNCHANGED << fs, currentStlPath >>
     ELSE /\ fs' = result.disk
          /\ currentStlPath' = Some(result.stlPath)
          /\ tasks' = [tasks EXCEPT ![i] = [@ EXCEPT !.pc = "read", !.rd = result.stlPath]]
          /\ last' = Step([tasks[i] EXCEPT !.pc = "read", !.rd = result.stlPath], "compile")
  /\ clock' = [clock EXCEPT !.fresh = TRUE]
  /\ sent' = << >>
  /\ UNCHANGED << currentFile, currentStlBuffer, lastBoundingBox, watcher, debounceTimer,
                  chan, timeouts, toolOk, hist >>

\* await fsp.readFile returns: the call installs the model and returns.
OpenRead(i) ==
  /\ tasks[i].kind = "open" /\ tasks[i].pc = "read"
  /\ LET c == OpenCommit(fs, tasks[i], fs[tasks[i].rd]) IN
     /\ currentStlBuffer' = c.buffer
     /\ currentFile' = c.file
     /\ lastBoundingBox' = c.box
     /\ watcher' = c.watcher
     /\ sent' = BroadcastAll(c.out)
     /\ last' = Step(Returned(tasks[i], c.res, c.out), "read")
  /\ tasks' = Overtake(tasks, i, "open")
  /\ UNCHANGED << currentStlPath, debounceTimer, chan, timeouts, fs, toolOk, clock, hist >>

(***************************************************************************)
(* The watcher and handleFileChange.                                       *)
(***************************************************************************)

\* The environment writes a file.  If the live watcher watches it, chokidar
\* emits 'change' and the handler of setupWatcher runs.
EnvWrite(f, bytes) ==
  /\ hist.edits < MaxEdits
  /\ bytes \in Versions(f)
  /\ Exists(fs, f) => fs[f] # bytes
  /\ fs' = (f :> bytes) @@ fs
  /\ IF watcher # None /\ Exists(fs, f) /\ f \in Range(watcher[1])
     THEN /\ timeouts' = OnWatcherChange(timeouts, debounceTimer, hist.timers + 1)
          /\ debounceTimer' = Some(hist.timers + 1)
          /\ hist' = [hist EXCEPT !.edits = @ + 1, !.timers = @ + 1,
                                  !.burst = IF hist.sinceChange < DebounceMs THEN @ + 1 ELSE 1,
                                  !.sinceChange = 0, !.fires = 0]
     ELSE /\ hist' = [hist EXCEPT !.edits = @ + 1]
          /\ UNCHANGED << timeouts, debounceTimer >>
  /\ sent' = << >>
  /\ last' = None
  /\ UNCHANGED << model, watcher, chan, toolOk, clock, tasks >>

\* handleFileChange(), to its first await.
handleFileChangeStart(t, now) ==
  IF ToLowerCase(Extname(t.abs)) = ExtScad
  THEN compileScadStart(t, now)
  ELSE [t EXCEPT !.pc = "read", !.rd = t.abs]

ErrTimeout == "Timeout waiting for browser response"
ErrNoPeer == "No browser connected"
ErrNoModel == "No model currently loaded"

\* The outer resolve / reject of the promise of sendAndWait is called; only
\* the first call settles the promise.
Settle(p, state, value, reason) ==
  IF p.state = "pending"
  THEN [p EXCEPT !.state = state, !.value = value, !.reason = reason, !.settles = @ + 1]
  ELSE [p EXCEPT !.settles = @ + 1]

\* The timeout callback of sendAndWait for requestId.
RequestTimedOut(table, id) ==
  [pending |-> MapDelete(table.pending, id),
   promises |-> [table.promises EXCEPT ![id] = Settle(@, "rejected", None, ErrTimeout)]]

RECURSIVE RequestsTimedOut(_, _)
RequestsTimedOut(table, ids) ==
  IF ids = {} THEN table
  ELSE LET id == CHOOSE x \in ids : \A y \in ids : x <= y
       IN RequestsTimedOut(RequestTimedOut(table, id), ids \ {id})

\* d milliseconds pass, up to the next expiry of a timeout.  The callbacks
\* of the timeouts that expire run: a debounce timeout calls
\* handleFileChange(), a request timeout fails its request.
Elapse(d) ==
  /\ timeouts # {} \/ ~clock.fresh
  /\ \A tm \in timeouts : d <= tm.left
  /\ LET due == {tm \in timeouts : tm.left = d}
         n == Cardinality({tm \in due : tm.fn = "debounce"})
         ids == {tm.req : tm \in {x \in due : x.fn = "request"}}
         started == handleFileChangeStart(NewCall("sync", << >>, currentFile[1]),
                                          clock.stamp + 1)
         table == RequestsTimedOut([pending |-> pendingRequests, promises |-> promises], ids)
     IN /\ timeouts' = {[tm EXCEPT !.left = @ - d] : tm \in timeouts \ due}
        /\ tasks' = IF n = 0 THEN tasks ELSE tasks \o [k \in 1..n |-> started]
        /\ clock' = IF n > 0 /\ started.pc = "compile"
                    THEN [stamp |-> clock.stamp + 1, fresh |-> FALSE]
                    ELSE [clock EXCEPT !.fresh = TRUE]
        /\ pendingRequests' = table.pending
        /\ promises' = table.promises
        /\ hist' = [hist EXCEPT !.fires = @ + n,
                                !.sinceChange = IF @ + d >= DebounceMs THEN DebounceMs
                                                ELSE @ + d]
        /\ last' = IF n > 0 THEN Step(started, "start")
                   ELSE IF ids # {}
                   THEN Step([kind |-> "timeout", pc |-> "done", ids |-> ids], "start")
                   ELSE None
  /\ sent' = << >>
  /\ UNCHANGED << model, watcher, debounceTimer, wsClients, readyState, requestIdCounter,
                  fs, toolOk >>

\* A resync that announces an update even when the compilation failed (a
\* faulty variant).
ResyncCompiledNotifying(disk, t, result) ==
  [watcher |-> setupWatcher(disk, currentFile[1]),
   failed |-> result.error # << >>,
   out |-> IF result.error # << >> THEN << ErrorMsg(result.error), ModelUpdated >>
           ELSE << >>]

\* A resync that sets the watcher up again only when the compilation
\* succeeded (a faulty variant).
ResyncCompiledKeeping(disk, t, result) ==
  [watcher |-> IF result.error # << >> THEN watcher ELSE setupWatcher(disk, currentFile[1]),
   failed |-> result.error # << >>,
   out |-> IF result.error # << >> THEN << ErrorMsg(result.error) >> ELSE << >>]

\* What handleFileChange does when await compileScad(currentFile) returns:
\* the watcher is set up again, then an error is broadcast or the artifact
\* is read.
ResyncCompiled(disk, t, result) ==
  [watcher |-> setupWatcher(disk, currentFile[1]),
   failed |-> result.error # << >>,
   out |-> IF result.error # << >> THEN << ErrorMsg(result.error) >> ELSE << >>]

SyncCompiled(i) ==
  /\ tasks[i].kind = "sync" /\ tasks[i].pc = "compile"
  /\ LET result == compileScadEnd(fs, tasks[i])
         c == ResyncCompiled(result.disk, tasks[i], result)
     IN /\ fs' = result.disk
        /\ watcher' = c.watcher
        /\ sent' = BroadcastAll(c.out)
        /\ IF c.failed
           THEN /\ last' = Step(Returned(tasks[i], Failure("error", result.error), c.out),
                                "compile")
                /\ tasks' = RemoveAt(tasks, i)
                /\ UNCHANGED currentStlPath
           ELSE /\ currentStlPath' = Some(result.stlPath)
                /\ tasks' = [tasks EXCEPT ![i] = [@ EXCEPT !.pc = "read", !.rd = result.stlPath]]
                /\ last' = Step([tasks[i] EXCEPT !.pc = "read", !.rd = result.stlPath],
                                "compile")
  /\ clock' = [clock EXCEPT !.fresh = TRUE]
  /\ UNCHANGED << currentFile, currentStlBuffer, lastBoundingBox, debounceTimer, chan,
                  timeouts, toolOk, hist >>

\* A resync that installs the artifact it read and keeps the box that was
\* there (a faulty variant).
ResyncCommitStaleBox(t, bytes) ==
  [buffer |-> Some(bytes),
   box |-> lastBoundingBox,
   out |-> << ModelUpdated >>]

\* What handleFileChange does when await fsp.readFile returns.
ResyncCommit(t, bytes) ==
  [buffer |-> Some(bytes),
   box |-> Some(parseStlBoundingBox(bytes)),
   out |-> << ModelUpdated >>]

SyncRead(i) ==
  /\ tasks[i].kind = "sync" /\ tasks[i].pc = "read"
  /\ LET c == ResyncCommit(tasks[i], fs[tasks[i].rd]) IN
     /\ currentStlBuffer' = c.buffer
     /\ lastBoundingBox' = c.box
     /\ sent' = BroadcastAll(c.out)
     /\ last' = Step(Returned(tasks[i], [NoResult EXCEPT !.ok = TRUE], c.out), "read")
  /\ tasks' = Overtake(tasks, i, "sync")
  /\ UNCHANGED << currentFile, currentStlPath, watcher, debounceTimer, chan, timeouts,
                  fs, toolOk, clock, hist >>

(***************************************************************************)
(* The browser peers: the 'connection' handler, sendAndWait and the view   *)
(* tool.                                                                   *)
(***************************************************************************)

\* A 'connection' handler that replays the model to every socket of the set
\* (a faulty variant).
JoinAnnouncing ==
  /\ hist.sockets < MaxPeers
  /\ LET ws == hist.sockets + 1 IN
     /\ wsClients' = Append(wsClients, ws)
     /\ readyState' = (ws :> OPEN) @@ readyState
     /\ sent' = IF currentFile # None
                THEN [i \in 1..Len(wsClients) |->
                        << wsClients[i], FileInfo(Basename(currentFile[1])) >>]
                     \o << << ws, FileInfo(Basename(currentFile[1])) >>,
                           << ws, ModelUpdated >> >>
                ELSE << >>
     /\ last' = Step([kind |-> "join", pc |-> "done", ws |-> ws], "start")
  /\ hist' = [hist EXCEPT !.sockets = @ + 1]
  /\ UNCHANGED << model, watcher, debounceTimer, pendingRequests, requestIdCounter,
                  timeouts, promises, fs, toolOk, clock, tasks >>

\* A browser connects: the 'connection' handler adds the socket and, if a
\* model is loaded, sends it the file name and the update notice.
Join ==
  /\ hist.sockets < MaxPeers
  /\ LET ws == hist.sockets + 1 IN
     /\ wsClients' = Append(wsClients, ws)
     /\ readyState' = (ws :> OPEN) @@ readyState
     /\ sent' = IF currentFile # None
                THEN << << ws, FileInfo(Basename(currentFile[1])) >>, << ws, ModelUpdated >> >>
                ELSE << >>
     /\ last' = Step([kind |-> "join", pc |-> "done", ws |-> ws], "start")
  /\ hist' = [hist EXCEPT !.sockets = @ + 1]
  /\ UNCHANGED << model, watcher, debounceTimer, pendingRequests, requestIdCounter,
                  timeouts, promises, fs, toolOk, clock, tasks >>

\* The closing handshake of a socket starts: it is no longer OPEN, and its
\* 'close' event is still to come.
BeginClose(ws) ==
  /\ ws \in Range(wsClients) /\ readyState[ws] = OPEN
  /\ readyState' = [readyState EXCEPT ![ws] = CLOSING]
  /\ sent' = << >>
  /\ last' = None
  /\ UNCHANGED << model, watcher, debounceTimer, wsClients, pendingRequests,
                  requestIdCounter, timeouts, promises, fs, toolOk, clock, tasks, hist >>

\* A 'close' handler that also disarms the timeouts of the requests that
\* wait, without failing them (a faulty variant).
LeaveDisarming(ws) ==
  /\ ws \in Range(wsClients)
  /\ wsClients' = SelectSeq(wsClients, LAMBDA x : x # ws)
  /\ readyState' = [readyState EXCEPT ![ws] = CLOSED]
  /\ timeouts' = {tm \in timeouts : tm.fn # "request"}
  /\ sent' = << >>
  /\ last' = Step([kind |-> "leave", pc |-> "done", ws |-> ws], "start")
  /\ UNCHANGED << model, watcher, debounceTimer, pendingRequests, requestIdCounter,
                  promises, fs, toolOk, clock, tasks, hist >>

\* A 'close' handler that fails the requests that were sent to the socket
\* (a faulty variant).
LeaveRejecting(ws) ==
  /\ ws \in Range(wsClients)
  /\ wsClients' = SelectSeq(wsClients, LAMBDA x : x # ws)
  /\ readyState' = [readyState EXCEPT ![ws] = CLOSED]
  /\ LET ids == {id \in DOMAIN pendingRequests : promises[id].peer = Some(ws)} IN
     /\ pendingRequests' = [id \in DOMAIN pendingRequests \ ids |-> pendingRequests[id]]
     /\ promises' = [id \in DOMAIN promises |->
                       IF id \in ids THEN Settle(promises[id], "rejected", None, ErrNoPeer)
                       ELSE promises[id]]
     /\ timeouts' = {tm \in timeouts : ~(tm.fn = "request" /\ tm.req \in ids)}
  /\ sent' = << >>
  /\ last' = Step([kind |-> "leave", pc |-> "done", ws |-> ws], "start")
  /\ UNCHANGED << model, watcher, debounceTimer, requestIdCounter, fs, toolOk, clock,
                  tasks, hist >>

\* The 'close' handler of a socket.
Leave(ws) ==
  /\ ws \in Range(wsClients)
  /\ wsClients' = SelectSeq(wsClients, LAMBDA x : x # ws)
  /\ readyState' = [readyState EXCEPT ![ws] = CLOSED]
  /\ sent' = << >>
  /\ last' = Step([kind |-> "leave", pc |-> "done", ws |-> ws], "start")
  /\ UNCHANGED << model, watcher, debounceTimer, pendingRequests, requestIdCounter,
                  timeouts, promises, fs, toolOk, clock, tasks, hist >>

\* The promise of a request, with the socket its message went to (none yet).
NewPromise ==
  [state |-> "pending", value |-> None, reason |-> "", settles |-> 0, peer |-> None]

\* A sendAndWait that sends to the first socket of the set, whatever its
\* state (a faulty variant).
sendAndWaitFirstMember(msg, timeoutMs, timer) ==
  LET requestId == requestIdCounter + 1
      armed == SetTimeout(timeouts, timer, "request", requestId, timeoutMs)
      table == (requestId :> [timer |-> timer]) @@ pendingRequests
  IN IF wsClients # << >>
     THEN [counter |-> requestId, timeouts |-> armed, pending |-> table,
           sent |-> << << wsClients[1], [msg EXCEPT !.requestId = requestId] >> >>,
           promise |-> [NewPromise EXCEPT !.peer = Some(wsClients[1])]]
     ELSE [counter |-> requestId, timeouts |-> ClearTimeout(armed, Some(timer)),
           pending |-> MapDelete(table, requestId), sent |-> << >>,
           promise |-> Settle(NewPromise, "rejected", None, ErrNoPeer)]

\* A sendAndWait that gives the identifier back when no socket is OPEN (a
\* faulty variant).
sendAndWaitReusing(msg, timeoutMs, timer) ==
  LET requestId == requestIdCounter + 1
      armed == SetTimeout(timeouts, timer, "request", requestId, timeoutMs)
      table == (requestId :> [timer |-> timer]) @@ pendingRequests
      ready == SelectSeq(wsClients, LAMBDA ws : readyState[ws] = OPEN)
  IN IF ready # << >>
     THEN [counter |-> requestId, timeouts |-> armed, pending |-> table,
           sent |-> << << ready[1], [msg EXCEPT !.requestId = requestId] >> >>,
           promise |-> [NewPromise EXCEPT !.peer = Some(ready[1])]]
     ELSE [counter |-> requestIdCounter, timeouts |-> ClearTimeout(armed, Some(timer)),
           pending |-> MapDelete(table, requestId), sent |-> << >>,
           promise |-> Settle(NewPromise, "rejected", None, ErrNoPeer)]

\* sendAndWait(msg, timeoutMs), whose timeout gets the handle timer: what it
\* leaves of the counter, the timer list and the table, what it sends, and
\* the promise it returns.
sendAndWait(msg, timeoutMs, timer) ==
  LET requestId == requestIdCounter + 1
      armed == SetTimeout(timeouts, timer, "request", requestId, timeoutMs)
      table == (requestId :> [timer |-> timer]) @@ pendingRequests
      ready == SelectSeq(wsClients, LAMBDA ws : readyState[ws] = OPEN)
  IN IF ready # << >>
     THEN [counter |-> requestId, timeouts |-> armed, pending |-> table,
           sent |-> << << ready[1], [msg EXCEPT !.requestId = requestId] >> >>,
           promise |-> [NewPromise EXCEPT !.peer = Some(ready[1])]]
     ELSE [counter |-> requestId, timeouts |-> ClearTimeout(armed, Some(timer)),
           pending |-> MapDelete(table, requestId), sent |-> << >>,
           promise |-> Settle(NewPromise, "rejected", None, ErrNoPeer)]

\* A view tool that makes its request without looking for a model first (a
\* faulty variant).
ViewRequestFirst ==
  /\ requestIdCounter < MaxRequests
  /\ LET r == sendAndWait(SetCamera, DefaultTimeoutMs, hist.timers + 1) IN
     /\ requestIdCounter' = r.counter
     /\ timeouts' = r.timeouts
     /\ pendingRequests' = r.pending
     /\ promises' = (r.counter :> r.promise) @@ promises
     /\ sent' = r.sent
     /\ hist' = [hist EXCEPT !.timers = @ + 1]
     /\ last' = Step([kind |-> "view", pc |-> IF r.promise.state = "pending" THEN "wait"
                                              ELSE "done",
                      id |-> r.counter, error |-> r.promise.reason], "start")
  /\ UNCHANGED << model, watcher, debounceTimer, wsClients, readyState, fs, toolOk, clock,
                  tasks >>

\* The view tool is called.
View ==
  /\ requestIdCounter < MaxRequests
  /\ IF currentFile = None
     THEN /\ last' = Step([kind |-> "view", pc |-> "done", id |-> 0, error |-> ErrNoModel],
                          "start")
          /\ sent' = << >>
          /\ UNCHANGED << requestIdCounter, timeouts, pendingRequests, promises, hist >>
     ELSE LET r == sendAndWait(SetCamera, DefaultTimeoutMs, hist.timers + 1) IN
          /\ requestIdCounter' = r.counter
          /\ timeouts' = r.timeouts
          /\ pendingRequests' = r.pending
          /\ promises' = (r.counter :> r.promise) @@ promises
          /\ sent' = r.sent
          /\ hist' = [hist EXCEPT !.timers = @ + 1]
          /\ last' = Step([kind |-> "view", pc |-> IF r.promise.state = "pending" THEN "wait"
                                                   ELSE "done",
                           id |-> r.counter, error |-> r.promise.reason], "start")
  /\ UNCHANGED << model, watcher, debounceTimer, wsClients, readyState, fs, toolOk, clock,
                  tasks >>

\* What a browser may send: text that is no JSON, the JSON text null, and
\* objects without a requestId or with one (0 included).
Inbound ==
  {[kind |-> "garbage", requestId |-> None], [kind |-> "null", requestId |-> None],
   [kind |-> "object", requestId |-> None]}
    \cup {[kind |-> "object", requestId |-> Some(id)] : id \in 0..MaxRequests}

\* JSON.parse(raw): the value, or nothing when it throws
JsonParse(raw) ==
  IF raw.kind = "garbage" THEN None
  ELSE IF raw.kind = "null" THEN Some(None)
  ELSE Some(Some([type |-> "response", text |-> << >>, requestId |-> raw.requestId]))

\* An entry whose resolve(data) leaves the entry in the table (a faulty
\* variant).
EntryResolveKeeping(table, id, data) ==
  [timeouts |-> ClearTimeout(table.timeouts, Some(table.pending[id].timer)),
   pending |-> table.pending,
   promises |-> [table.promises EXCEPT ![id] = Settle(@, "fulfilled", Some(data), "")]]

\* The resolve(data) of the table entry of requestId.
EntryResolve(table, id, data) ==
  [timeouts |-> ClearTimeout(table.timeouts, Some(table.pending[id].timer)),
   pending |-> MapDelete(table.pending, id),
   promises |-> [table.promises EXCEPT ![id] = Settle(@, "fulfilled", Some(data), "")]]

\* A 'message' handler that resolves the oldest entry of the table when the
\* identifier of the message is in no entry (a faulty variant).
OnMessageAnyId(table, raw) ==
  LET parsed == JsonParse(raw) IN
  IF parsed = None \/ parsed[1] = None THEN table
  ELSE LET msg == parsed[1][1] IN
       IF msg.requestId # None /\ msg.requestId[1] # 0
          /\ msg.requestId[1] \in DOMAIN table.pending
       THEN EntryResolve(table, msg.requestId[1], msg)
       ELSE IF msg.requestId # None /\ msg.requestId[1] # 0 /\ DOMAIN table.pending # {}
       THEN EntryResolve(table, First(DOMAIN table.pending), msg)
       ELSE table

\* The 'message' handler of a socket: a parsed message with a truthy
\* requestId that the table holds resolves that entry; anything else,
\* including what JSON.parse or the property access throws on, is dropped.
OnMessage(table, raw) ==
  LET parsed == JsonParse(raw) IN
  IF parsed = None \/ parsed[1] = None THEN table
  ELSE LET msg == parsed[1][1] IN
       IF msg.requestId # None /\ msg.requestId[1] # 0
          /\ msg.requestId[1] \in DOMAIN table.pending
       THEN EntryResolve(table, msg.requestId[1], msg)
       ELSE table

\* A connected socket receives raw.
Message(raw) ==
  /\ wsClients # << >>
  /\ LET r == OnMessage([timeouts |-> timeouts, pending |-> pendingRequests,
                         promises |-> promises], raw) IN
     /\ timeouts' = r.timeouts
     /\ pendingRequests' = r.pending
     /\ promises' = r.promises
  /\ sent' = << >>
  /\ last' = Step([kind |-> "message", pc |-> "done", raw |-> raw], "start")
  /\ UNCHANGED << model, watcher, debounceTimer, wsClients, readyState, requestIdCounter,
                  fs, toolOk, clock, tasks, hist >>

(***************************************************************************)
(* Specifications.                                                         *)
(***************************************************************************)

\* The state of the module once loaded, the files on the disk being disk.
InitOn(disk) ==
  /\ currentFile = None
  /\ currentStlPath = None
  /\ currentStlBuffer = None
  /\ lastBoundingBox = None
  /\ watcher = None
  /\ debounceTimer = None
  /\ wsClients = << >>
  /\ readyState = << >>
  /\ pendingRequests = << >>
  /\ requestIdCounter = 0
  /\ timeouts = {}
  /\ promises = << >>
  /\ fs = disk
  /\ toolOk \in BOOLEAN
  /\ clock = [stamp |-> 0, fresh |-> TRUE]
  /\ tasks = << >>
  /\ last = None
  /\ sent = << >>
  /\ hist = [opens |-> 0, edits |-> 0, timers |-> 0, sockets |-> 0,
             sinceChange |-> DebounceMs, fires |-> 0, burst |-> 0]

Init == InitOn((FileA :> Scad1) @@ (FileB :> Stl1) @@ (FileC :> << 120 >>))

\* The synchronization core: opens, edits of the files, time, resyncs.
Next ==
  \/ \E filePath \in OpenArgs : OpenStart(filePath)
  \/ \E i \in 1..Len(tasks) : OpenToolChecked(i)
  \/ \E i \in 1..Len(tasks) : OpenCompiled(i)
  \/ \E i \in 1..Len(tasks) : OpenRead(i)
  \/ \E f \in {FileA, FileB, FileL} : \E bytes \in Versions(f) : EnvWrite(f, bytes)
  \/ Elapse(TickMs)
  \/ \E i \in 1..Len(tasks) : SyncCompiled(i)
  \/ \E i \in 1..Len(tasks) : SyncRead(i)

Spec == Init /\ [][Next]_vars

\* The peer channel: browsers come and go, a mesh file is opened once, the
\* view tool sends requests, messages arrive, requests time out.
NextChannel ==
  \/ hist.opens = 0 /\ OpenStart(FileB)
  \/ \E i \in 1..Len(tasks) : OpenRead(i)
  \/ Join
  \/ \E ws \in 1..MaxPeers : BeginClose(ws)
  \/ \E ws \in 1..MaxPeers : Leave(ws)
  \/ View
  \/ \E raw \in Inbound : Message(raw)
  \/ Elapse(HalfTimeoutMs)

\* Only a mesh file is opened there, so the tool plays no part.
InitChannel == Init /\ toolOk = TRUE

SpecChannel == InitChannel /\ [][NextChannel]_vars

\* Time passes: a timeout of Node that is armed expires.
SpecChannelLive == SpecChannel /\ WF_vars(Elapse(HalfTimeoutMs))


(***************************************************************************)
(* Properties.                                                             *)
(***************************************************************************)

\* The last step was a step of a call of this kind.
Ran(kind) == last # None /\ last[1].call.kind = kind

\* The last step was the return (or throw) of a call of this kind.
Finished(kind) == Ran(kind) /\ last[1].call.pc = "done"

\* sourcePath, meshArtifact and boundingBox are what they were before the step
ModelKept ==
  /\ currentFile = last[1].pre.file
  /\ currentStlBuffer = last[1].pre.buffer
  /\ lastBoundingBox = last[1].pre.box

\* What the compiler says of a source it fails on: its standard error or,
\* when that is empty, the message of the failed execution.
Diagnostic(src) ==
  IF Openscad(src).stderr # << >> THEN Openscad(src).stderr ELSE Openscad(src).message

\* C1: a change-triggered resync whose compilation was in flight while a
\* later Open began and completed does not modify sourcePath, meshArtifact
\* or boundingBox when it finishes.
C1_StaleResyncDiscarded ==
  (Finished("sync") /\ last[1].call.overtaken = "open" /\ last[1].call.during = "compile")
    => ModelKept

\* C2: of two overlapping Opens, the one that started earlier never
\* overwrites what the one that started later installed: when it finishes
\* after the later one, sourcePath, meshArtifact, boundingBox and the Watch
\* Set stay those of the later one.
C2_OpensSerialized ==
  (Finished("open") /\ last[1].call.overtaken = "open")
    => (ModelKept /\ watcher = last[1].pre.watcher)

\* C3: a change-triggered recompilation that fails leaves sourcePath,
\* meshArtifact and boundingBox as they were, broadcasts exactly one error
\* message, which carries the diagnostic of the compiler, and broadcasts no
\* model-updated message.
C3_FailedResyncKeepsModel ==
  (Finished("sync") /\ ~last[1].call.res.ok)
    => /\ ModelKept
       /\ Len(last[1].call.out) = 1
       /\ last[1].call.out[1].type = "error"
       /\ last[1].call.out[1].text = Diagnostic(fs[last[1].call.abs])
       /\ \A k \in 1..Len(last[1].call.out) : last[1].call.out[k].type # "model-updated"

\* A resync has just failed while a model opened before is being served.
C3_Witness ==
  /\ Finished("sync") /\ ~last[1].call.res.ok
  /\ last[1].pre.buffer # None /\ currentStlBuffer = last[1].pre.buffer
  /\ last[1].call.out = << ErrorMsg(<< "E", "R", "R" >>) >>

\* The debounce timeouts that are armed.
DebounceTimeouts == {tm \in timeouts : tm.fn = "debounce"}

\* C7: once a change event has been seen, no resync starts while less than
\* 300 ms have passed since the last change event, during which exactly one
\* debounce timeout is armed, that of the last event, with what is left of
\* its 300 ms; when 300 ms have passed exactly one resync has been started
\* and no debounce timeout is left.
C7_DebounceOnce ==
  debounceTimer # None
    => /\ hist.sinceChange < DebounceMs
            => /\ hist.fires = 0
               /\ DebounceTimeouts =
                    {[id |-> debounceTimer[1], fn |-> "debounce", req |-> 0,
                      left |-> DebounceMs - hist.sinceChange]}
       /\ hist.sinceChange >= DebounceMs
            => /\ hist.fires = 1
               /\ DebounceTimeouts = {}

\* The one resync of a burst of two change events has just started.
C7_Witness ==
  /\ Ran("sync") /\ last[1].from = "start"
  /\ hist.burst = 2 /\ hist.fires = 1 /\ hist.sinceChange = DebounceMs

\* C8: when the compilation of a change-triggered resync has ended, with or
\* without an error, the watcher watches the source path and those of its
\* dependencies that exist on the disk at that moment.
C8_WatchSetRefreshed ==
  (Ran("sync") /\ last[1].from = "compile")
    => /\ watcher # None
       /\ watcher[1] = << currentFile[1] >> \o
            (IF ToLowerCase(Extname(currentFile[1])) = ExtScad
             THEN parseScadDependencies(fs, currentFile[1]) ELSE << >>)

\* A failed recompilation has just put a dependency that had been missing
\* into the Watch Set.
C8_Witness ==
  /\ Ran("sync") /\ last[1].from = "compile" /\ ~last[1].call.res.ok
  /\ last[1].call.pc = "done"
  /\ FileL \notin Range(last[1].pre.watcher[1])
  /\ watcher = Some(<< FileA, FileL >>)

\* C9: a successful Open has installed the resolved absolute path, the bytes
\* it loaded and their box, has replaced the Watch Set by the source and, for
\* a .scad source, its dependencies, has broadcast one model-updated and then
\* one file-info message, and returns the resolved path, the size of the
\* file and the box it stored.
C9_OpenInstalls ==
  (Finished("open") /\ last[1].call.res.ok)
    => LET call == last[1].call
           absPath == PathResolve(call.arg)
       IN /\ currentFile = Some(absPath)
          /\ currentStlBuffer = Some(fs[call.rd])
          /\ lastBoundingBox = Some(parseStlBoundingBox(fs[call.rd]))
          /\ watcher = Some(<< absPath >> \o
                              (IF ToLowerCase(Extname(absPath)) = ExtScad
                               THEN parseScadDependencies(fs, absPath) ELSE << >>))
          /\ call.out = << ModelUpdated, FileInfo(Basename(absPath)) >>
          /\ call.res.file = absPath
          /\ call.res.fileSize = Len(fs[absPath])
          /\ call.res.boundingBox = lastBoundingBox

\* An Open of a.scad by its relative path has just succeeded, its dependency
\* being there.
C9_Witness ==
  /\ Finished("open") /\ last[1].call.res.ok
  /\ last[1].call.arg # FileA /\ currentFile = Some(FileA)
  /\ watcher = Some(<< FileA, FileL >>)
  /\ currentStlBuffer # last[1].pre.buffer

\* C10: an Open that fails reports the first failing check in the order
\* existence, extension, tool, compilation: File not found for a path that
\* does not exist, whatever its extension; Unsupported file type for an
\* existing path that is neither .scad nor .stl; the tool error, with no
\* compilation started, for a .scad path when the tool is not available; the
\* compilation error with the diagnostic otherwise.
C10_OpenErrorOrder ==
  (Finished("open") /\ ~last[1].call.res.ok)
    => LET call == last[1].call
           absPath == PathResolve(call.arg)
           ext == ToLowerCase(Extname(absPath))
       IN IF ~Exists(fs, absPath)
          THEN call.res.error = ErrNotFound /\ last[1].from = "start"
          ELSE IF ext # ExtScad /\ ext # ExtStl
          THEN call.res.error = ErrUnsupported /\ last[1].from = "start"
          ELSE IF ~toolOk
          THEN /\ call.res.error = ErrNoTool /\ last[1].from = "checkTool"
               /\ ext = ExtScad /\ call.tmp = << >>
          ELSE /\ call.res.error = ErrCompile /\ last[1].from = "compile"
               /\ ext = ExtScad
               /\ call.res.detail = Diagnostic(fs[absPath])

\* An Open of a path that does not exist and has an unsupported extension
\* has just failed with File not found.
C10_Witness ==
  /\ Finished("open") /\ last[1].call.res.error = ErrNotFound
  /\ ToLowerCase(Extname(last[1].call.abs)) \notin {ExtScad, ExtStl}

\* The requestId the last inbound message carried, if it was an object with
\* a truthy one.
CarriedId ==
  IF Ran("message") /\ last[1].call.raw.requestId # None
     /\ last[1].call.raw.requestId[1] # 0
  THEN last[1].call.raw.requestId
  ELSE None

\* C4: a request is completed exactly once.  The promise of a request is
\* settled by at most one call; its table entry exists exactly while it is
\* pending, and so does its timeout.  A message that carries the identifier
\* of a table entry removes the entry and fulfils the request; an expired
\* timeout removes the entry and rejects the request; a message for an
\* identifier that is not in the table changes neither the table nor any
\* promise nor any timeout.
C4_CompletedOnce ==
  /\ \A id \in DOMAIN promises :
       /\ promises[id].settles <= 1
       /\ (id \in DOMAIN pendingRequests) = (promises[id].state = "pending")
       /\ (id \in DOMAIN pendingRequests) =
            (\E tm \in timeouts : tm.fn = "request" /\ tm.req = id)
  /\ DOMAIN pendingRequests \subseteq DOMAIN promises
  /\ Ran("message") =>
       IF CarriedId # None /\ CarriedId[1] \in DOMAIN last[1].pre.pending
       THEN /\ CarriedId[1] \notin DOMAIN pendingRequests
            /\ promises[CarriedId[1]].state = "fulfilled"
            /\ promises[CarriedId[1]].settles = 1
       ELSE /\ pendingRequests = last[1].pre.pending
            /\ promises = last[1].pre.promises
            /\ timeouts = last[1].pre.timeouts
  /\ Ran("timeout") =>
       \A id \in last[1].call.ids :
         /\ id \in DOMAIN last[1].pre.pending
         /\ id \notin DOMAIN pendingRequests
         /\ promises[id].state = "rejected"
         /\ promises[id].settles = 1

\* A second response for a request that a first response has completed has
\* just arrived.
C4_Witness ==
  /\ CarriedId # None
  /\ CarriedId[1] \in DOMAIN promises
  /\ CarriedId[1] \notin DOMAIN last[1].pre.pending
  /\ promises[CarriedId[1]].state = "fulfilled"
  /\ promises[CarriedId[1]].settles = 1

\* The sockets of the Peer Set that are OPEN.
ReadyPeers == {ws \in Range(wsClients) : readyState[ws] = OPEN}

\* C5: a request made while no socket of the Peer Set is OPEN is rejected at
\* once with No browser connected, sends nothing, and leaves the table and
\* the armed timeouts as they were, with no entry and no timeout of its own.
C5_NoPeerFailsAtOnce ==
  (Ran("view") /\ last[1].call.id # 0 /\ ReadyPeers = {})
    => LET id == last[1].call.id IN
       /\ last[1].call.pc = "done"
       /\ promises[id].state = "rejected"
       /\ promises[id].reason = ErrNoPeer
       /\ sent = << >>
       /\ id \notin DOMAIN pendingRequests
       /\ \A tm \in timeouts : ~(tm.fn = "request" /\ tm.req = id)
       /\ pendingRequests = last[1].pre.pending
       /\ timeouts = last[1].pre.timeouts

\* A request has just been made while the only connected socket is closing.
C5_Witness ==
  /\ Ran("view") /\ last[1].call.id # 0
  /\ wsClients # << >> /\ ReadyPeers = {}
  /\ promises[last[1].call.id].reason = ErrNoPeer

\* The request was dispatched and neither a response nor its timeout has
\* completed it.
Waiting(id) == id \in DOMAIN pendingRequests

\* The request has been completed: fulfilled by a response or rejected by
\* its timeout, and its table entry is gone.
Completed(id) ==
  /\ id \in DOMAIN promises
  /\ id \notin DOMAIN pendingRequests
  /\ \/ promises[id].state = "fulfilled"
     \/ promises[id].state = "rejected" /\ promises[id].reason = ErrTimeout

\* The timeout of a request the view tool dispatches is armed for 10 s; the
\* failure of a timeout is not that of a missing peer.
TimeoutArmed ==
  /\ ErrTimeout # ErrNoPeer
  /\ DefaultTimeoutMs = 10000
  /\ (Ran("view") /\ last[1].call.pc = "wait")
       => \E tm \in timeouts : /\ tm.fn = "request" /\ tm.req = last[1].call.id
                               /\ tm.left = DefaultTimeoutMs
  /\ Ran("timeout")
       => \A id \in last[1].call.ids : promises[id].reason = ErrTimeout

\* C6: every request dispatched to a ready peer is eventually completed, by
\* a response or, 10 s after it was sent, by the timeout failure, which is
\* not the no-peer failure; this also when every peer has left.
C6_EventuallyCompleted ==
  /\ \A id \in 1..MaxRequests : Waiting(id) ~> Completed(id)
  /\ []TimeoutArmed

\* A request has just timed out after its peer left without a reply.
C6_Witness ==
  /\ Ran("timeout")
  /\ wsClients = << >>
  /\ \E id \in last[1].call.ids :
       promises[id].state = "rejected" /\ promises[id].reason = ErrTimeout

(***************************************************************************)
(* The view tool, the request identifiers and the Peer Set.                *)
(***************************************************************************)

\* The last step was a call of the view tool that made a request.
Requested == Ran("view") /\ last[1].call.error # ErrNoModel

\* How many times the last step sent msg to the socket ws.
Deliveries(ws, msg) == Cardinality({i \in 1..Len(sent) : sent[i] = << ws, msg >>})

\* C11: a view made while no model is active fails with No model currently
\* loaded before any round trip: nothing is sent, the identifier counter,
\* the table, the timeouts and the promises stay as they were, whether or
\* not a peer is connected.
C11_ViewWithoutModel ==
  (Ran("view") /\ last[1].pre.file = None)
    => /\ last[1].call.pc = "done"
       /\ last[1].call.error = ErrNoModel
       /\ sent = << >>
       /\ requestIdCounter = last[1].pre.counter
       /\ pendingRequests = last[1].pre.pending
       /\ timeouts = last[1].pre.timeouts
       /\ promises = last[1].pre.promises

\* A view has just failed for want of a model while a peer was ready.
C11_Witness ==
  /\ Ran("view") /\ last[1].pre.file = None
  /\ last[1].call.error = ErrNoModel
  /\ ReadyPeers # {}

\* C12: request identifiers are strictly increasing over all requests, those
\* that fail for want of a peer included.  Each request takes the counter
\* plus one, an identifier no earlier request had; nothing but a request
\* moves the counter; the identifiers given so far are 1..counter, and no
\* identifier has two timeouts or twice an entry.
C12_IdentifiersIncrease ==
  /\ DOMAIN promises = 1..requestIdCounter
  /\ DOMAIN pendingRequests \subseteq 1..requestIdCounter
  /\ \A id \in 1..requestIdCounter :
       Cardinality({tm \in timeouts : tm.fn = "request" /\ tm.req = id}) <= 1
  /\ Requested =>
       /\ last[1].call.id = last[1].pre.counter + 1
       /\ requestIdCounter = last[1].call.id
       /\ \A old \in DOMAIN last[1].pre.promises \cup DOMAIN last[1].pre.pending :
            old < last[1].call.id
  /\ (last # None /\ ~Requested) => requestIdCounter = last[1].pre.counter

\* A request has just been dispatched under identifier 2 after the request
\* with identifier 1 failed for want of a peer.
C12_Witness ==
  /\ Requested
  /\ last[1].call.id = 2
  /\ 2 \in DOMAIN pendingRequests
  /\ promises[1].reason = ErrNoPeer

\* C13: the table never holds two live entries whose messages went to the
\* same peer.
C13_OneInFlightPerPeer ==
  \A a, b \in DOMAIN pendingRequests :
    a # b => promises[a].peer # promises[b].peer

\* C14: a request made while a socket of the Peer Set is OPEN sends one
\* message, to the first socket of the set that is OPEN; the message is the
\* set-camera request and carries the identifier of the entry the request
\* has just put into the table.
C14_SentToOneReadyPeer ==
  (Requested /\ ReadyPeers # {})
    => /\ Len(sent) = 1
       /\ LET ws == sent[1][1]
              msg == sent[1][2]
          IN /\ ws \in ReadyPeers
             /\ \A i, j \in 1..Len(wsClients) :
                  (wsClients[i] = ws /\ j < i) => readyState[wsClients[j]] # OPEN
             /\ msg.type = "set-camera"
             /\ msg.requestId = last[1].call.id
       /\ last[1].call.pc = "wait"
       /\ last[1].call.id \in DOMAIN pendingRequests
       /\ last[1].call.id \notin DOMAIN last[1].pre.pending
       /\ promises[last[1].call.id].state = "pending"

\* A request has just gone to the second socket of the set, the first one
\* being no longer OPEN.
C14_Witness ==
  /\ Requested
  /\ Len(wsClients) = 2 /\ readyState[wsClients[1]] # OPEN
  /\ Len(sent) = 1 /\ sent[1][1] = wsClients[2]

\* C15: a peer that joins becomes an OPEN member of the Peer Set.  If a
\* model is active the handler sends the file-info and the model-updated
\* events to that peer and to no other; if none is, it sends nothing.  A
\* broadcast made later reaches every OPEN member, so the new peer too.
C15_JoinReplaysModel ==
  /\ Ran("join") =>
       LET ws == last[1].call.ws IN
       /\ ws \notin Range(last[1].pre.clients)
       /\ Range(wsClients) = Range(last[1].pre.clients) \cup {ws}
       /\ readyState[ws] = OPEN
       /\ currentFile = last[1].pre.file
       /\ IF currentFile = None THEN sent = << >>
          ELSE /\ Len(sent) = 2
               /\ Deliveries(ws, FileInfo(Basename(currentFile[1]))) = 1
               /\ Deliveries(ws, ModelUpdated) = 1
  /\ (Finished("open") /\ last[1].call.res.ok) =>
       \A ws \in ReadyPeers : Deliveries(ws, ModelUpdated) >= 1

\* A peer has just joined a set that had a member, a model being active.
C15_Witness ==
  /\ Ran("join")
  /\ last[1].pre.clients # << >>
  /\ currentFile # None
  /\ Len(sent) = 2

\* C16: a broadcast delivers its event exactly once to every member of the
\* Peer Set that is OPEN and to no other socket, and the call that makes it
\* goes on: an Open that has read its artifact returns its result.
C16_BroadcastDelivery ==
  /\ (Finished("open") \/ Finished("sync")) =>
       /\ \A i \in 1..Len(last[1].call.out) : \A ws \in 1..MaxPeers :
            Deliveries(ws, last[1].call.out[i]) = IF ws \in ReadyPeers THEN 1 ELSE 0
       /\ Len(sent) = Len(last[1].call.out) * Cardinality(ReadyPeers)
  /\ (Finished("open") /\ last[1].from = "read") =>
       /\ last[1].call.res.ok
       /\ last[1].call.out = << ModelUpdated, FileInfo(Basename(currentFile[1])) >>

\* An Open has just broadcast to a set with one OPEN member and one member
\* that is closing.
C16_Witness ==
  /\ Finished("open") /\ last[1].call.res.ok
  /\ \E ws \in Range(wsClients) : readyState[ws] = CLOSING
  /\ ReadyPeers # {}
  /\ sent # << >>

(***************************************************************************)
(* The temporary paths of the compiler and the mesh sources.               *)
(***************************************************************************)

\* The path names a mesh file (.stl, in any case of the letters).
IsMesh(p) == ToLowerCase(Extname(p)) = ExtStl

\* C17: any two compilations write to different temporary paths: no two
\* compilations in flight share their output path, and a compilation that
\* starts is given a path at which no earlier artifact lies.
C17_DistinctTmpPaths ==
  /\ \A i, j \in 1..Len(tasks) :
       (i # j /\ tasks[i].tmp # << >> /\ tasks[j].tmp # << >>)
         => tasks[i].tmp # tasks[j].tmp
  /\ (last # None /\ last[1].call.kind \in {"open", "sync"} /\ last[1].call.pc = "compile")
       => ~Exists(fs, last[1].call.tmp)

\* C18: the Open and the resync of a mesh source never look for the tool
\* and never run it.  A call on a mesh source waits only for the read of
\* the source itself; the Open of an existing mesh file goes to that read
\* and returns success from it, whether or not the tool is available; what
\* the Open or the resync installs as the artifact are the bytes of the
\* source; the Open watches the source alone and the resync leaves the
\* watcher as it is.
C18_MeshNeverCompiled ==
  /\ \A i \in 1..Len(tasks) :
       IsMesh(tasks[i].abs)
         => tasks[i].pc = "read" /\ tasks[i].tmp = << >> /\ tasks[i].rd = tasks[i].abs
  /\ (Ran("open") /\ IsMesh(last[1].call.abs) /\ Exists(fs, last[1].call.abs))
       => /\ last[1].call.tmp = << >>
          /\ last[1].call.res.error = ""
          /\ last[1].from = "start" => last[1].call.pc = "read"
          /\ last[1].from = "read"
               => /\ last[1].call.res.ok
                  /\ currentFile = Some(last[1].call.abs)
                  /\ currentStlBuffer = Some(fs[last[1].call.abs])
                  /\ watcher # None /\ Range(watcher[1]) = {last[1].call.abs}
  /\ (Ran("sync") /\ IsMesh(last[1].call.abs))
       => /\ last[1].call.tmp = << >>
          /\ last[1].call.pc \in {"read", "done"}
          /\ last[1].call.pc = "done"
               => /\ last[1].call.res.ok
                  /\ currentStlBuffer = Some(fs[last[1].call.abs])
                  /\ watcher = last[1].pre.watcher

\* The resync of a mesh source that was opened without the tool has just
\* installed the new bytes of the source.
C18_Witness ==
  /\ Finished("sync") /\ IsMesh(last[1].call.abs)
  /\ ~toolOk
  /\ currentFile = Some(FileB)
  /\ currentStlBuffer = Some(fs[FileB])
  /\ currentStlBuffer # last[1].pre.buffer

(***************************************************************************)
(* The mesh decoder on the meshes a file may hold.                         *)
(***************************************************************************)

\* The largest triangle count of a binary mesh of the model.
MaxTriangles == 2

\* float32 values, least significant byte first.
F32Zero == << 0, 0, 0, 0 >>
F32NegZero == << 0, 0, 0, 128 >>
F32One == << 0, 0, 128, 63 >>
F32NegTwo == << 0, 0, 0, 192 >>
F32Tiny == << 1, 0, 0, 0 >>
F32Inf == << 0, 0, 128, 127 >>
F32NegInf == << 0, 0, 128, 255 >>
F32NaN == << 0, 0, 192, 127 >>

\* The coordinates of the vertices, and those of the normals.
F32Coords == {F32Zero, F32NegZero, F32One, F32NegTwo, F32Tiny, F32Inf, F32NegInf, F32NaN}
F32Normals == {F32Zero, F32NegInf}

Bytes(n, b) == [i \in 1..n |-> b]

\* The 80 bytes of a header: zeros, or a text that spells a vertex triplet.
HeaderZeros == Bytes(80, 0)
HeaderText ==
  Utf8Encode(<< "v", "e", "r", "t", "e", "x", " ", "9", " ", "9", " ", "9" >>) \o Bytes(68, 32)

\* The 50 bytes of a triangle record: the normal (n, n, n), the vertices
\* (a, b, c), (b, a, c) and (a, b, b), and the attribute byte count.
TriangleRecord(n, a, b, c) ==
  n \o n \o n \o a \o b \o c \o b \o a \o c \o a \o b \o b \o << 0, 0 >>

\* A buffer of Encoding A: header, declared count, and records records,
\* the second with the coordinates rotated.
RECURSIVE Records(_, _, _, _, _)
Records(records, n, a, b, c) ==
  IF records = 0 THEN << >>
  ELSE TriangleRecord(n, a, b, c) \o Records(records - 1, n, b, c, a)

EncodingA(header, declared, records, n, a, b, c) ==
  header \o << declared, 0, 0, 0 >> \o Records(records, n, a, b, c)

\* The binary meshes: well formed ones, and ones whose declared count is
\* zero or more than the records that follow.
BinaryMeshes ==
  {EncodingA(header, declared, records, n, a, b, c) :
     header \in {HeaderZeros, HeaderText}, declared \in 0..MaxTriangles,
     records \in 1..MaxTriangles, n \in F32Normals,
     a \in {F32One, F32Inf, F32NaN}, b \in F32Coords, c \in {F32NegTwo, F32Tiny}}

\* The text meshes and the buffers too short for Encoding A.
TextMeshes ==
  { << >>,
    Bytes(83, 0),
    Stl1,
    Utf8Encode(<< "v", "e", "r", "t", "e", "x", " ", "1", " ", "2" >>),
    Utf8Encode(<< "v", "e", "r", "t", "e", "x", "\t", "1", " ", "+", "2", "\n", "-", "3",
                  " ", "v", "e", "r", "t", "e", "x", " ", "-", "4", " ", "5", "e", "1",
                  " ", ".", "5" >>),
    Utf8Encode(<< "v", "e", "r", "t", "e", "x", " ", "e", " ", "e", " ", "e" >>),
    Utf8Encode(<< "v", "e", "r", "t", "e", "x", " ", "1", " ", "-", " ", "3" >>),
    HeaderText }

Meshes == BinaryMeshes \cup TextMeshes

\* b.STL holds a mesh of Meshes; it is opened once.
InitDecoder == \E mesh \in Meshes : InitOn(FileB :> mesh) /\ toolOk = FALSE

NextDecoder ==
  \/ hist.opens = 0 /\ OpenStart(FileB)
  \/ \E i \in 1..Len(tasks) : OpenRead(i)

SpecDecoder == InitDecoder /\ [][NextDecoder]_vars

\* An Open has just installed the mesh it read and its box.
Decoded == Finished("open") /\ last[1].call.res.ok

\* The buffer is well formed for Encoding A: it holds the header, a count
\* of at least one, and that many records.
IsEncodingA(buffer) ==
  /\ Len(buffer) >= 84
  /\ ReadUInt32LE(buffer, 80) >= 1
  /\ Len(buffer) >= 84 + 50 * ReadUInt32LE(buffer, 80)

\* The coordinates of the vertices of an Encoding-A buffer on an axis
\* (1, 2, 3 for x, y, z): three per record, after the normal.
AxisCoordinates(buffer, axis) ==
  {ReadFloatLE(buffer, 84 + 50 * t + 12 + 12 * v + 4 * (axis - 1)) :
     t \in 0..(ReadUInt32LE(buffer, 80) - 1), v \in 0..2}

\* a <= b as numbers
NumLeq(a, b) == a.k # "nan" /\ b.k # "nan" /\ ~NumLess(b, a)

IsMinimum(m, coords) ==
  /\ \E c \in coords : NumLeq(m, c) /\ NumLeq(c, m)
  /\ \A c \in coords : NumLeq(m, c)

IsMaximum(m, coords) ==
  /\ \E c \in coords : NumLeq(m, c) /\ NumLeq(c, m)
  /\ \A c \in coords : NumLeq(c, m)

\* C19: for a buffer that is a well-formed Encoding-A mesh of at least one
\* triangle, whose coordinates are numbers, the box holds on every axis the
\* least and the greatest of the coordinates of all the vertices, whatever
\* the normals are and whatever text the bytes of the buffer spell.
C19_BinaryBox ==
  (Decoded /\ IsEncodingA(currentStlBuffer[1])
     /\ \A axis \in 1..3 : NaN \notin AxisCoordinates(currentStlBuffer[1], axis))
    => \A axis \in 1..3 :
         /\ IsMinimum(lastBoundingBox[1].min[axis], AxisCoordinates(currentStlBuffer[1], axis))
         /\ IsMaximum(lastBoundingBox[1].max[axis], AxisCoordinates(currentStlBuffer[1], axis))

\* The buffer, read as text, holds the word vertex.
HoldsVertexWord(buffer) ==
  \E k \in 1..Len(buffer) : MatchAt(Utf8Decode(buffer), k, VertexWord)

\* C20: the decoder always returns a box.  For a buffer that is not a
\* well-formed Encoding-A mesh (shorter than 84 bytes, of declared count 0,
\* or shorter than its declared count asks) the box is the fold of the
\* vertex triplets of its text; it is the empty box when the text holds no
\* vertex word, the empty buffer included, and otherwise it is the empty box
\* or has min <= max on every axis.
C20_FallbackBox ==
  /\ Decoded => lastBoundingBox # None
  /\ (Decoded /\ ~IsEncodingA(currentStlBuffer[1]))
       => /\ lastBoundingBox[1] = AsciiScan(Utf8Decode(currentStlBuffer[1]), 1, EmptyBox)
          /\ ~HoldsVertexWord(currentStlBuffer[1]) => lastBoundingBox[1] = EmptyBox
          /\ \/ lastBoundingBox[1] = EmptyBox
             \/ \A axis \in 1..3 :
                  NumLeq(lastBoundingBox[1].min[axis], lastBoundingBox[1].max[axis])

(***************************************************************************)
(* The dependency scan on the sources a file may hold.                     *)
(***************************************************************************)

\* The largest number of references of a source of the model.
MaxRefs == 2

FileM == << "/", "w", "/", "m" >>

\* Reference statements, each with the absolute path its reference resolves
\* to from /w: include <l>, use<m>, use TAB <../w/l>, include </w/m>.
RefStatements ==
  { [text |-> << "i", "n", "c", "l", "u", "d", "e", " ", "<", "l", ">" >>, abs |-> FileL],
    [text |-> << "u", "s", "e", "<", "m", ">" >>, abs |-> FileM],
    [text |-> << "u", "s", "e", "\t", "<", ".", ".", "/", "w", "/", "l", ">" >>, abs |-> FileL],
    [text |-> << "i", "n", "c", "l", "u", "d", "e", " ", "<", "/", "w", "/", "m", ">" >>,
     abs |-> FileM] }

\* The sequences of at most n elements of a set.
RECURSIVE SeqsUpTo(_, _)
SeqsUpTo(set, n) ==
  IF n = 0 THEN {<< >>}
  ELSE SeqsUpTo(set, n - 1)
         \cup {Append(s, x) : s \in {t \in SeqsUpTo(set, n - 1) : Len(t) = n - 1}, x \in set}

\* The text of a sequence of statements, each followed by ";" and a newline.
RECURSIVE StatementsText(_)
StatementsText(stmts) ==
  IF stmts = << >> THEN << >>
  ELSE Head(stmts).text \o << ";", "\n" >> \o StatementsText(Tail(stmts))

\* The sources: their text, and the paths their references resolve to, in
\* order.  The last three hold no reference: a call, an include with empty
\* brackets, an include without brackets.
ScadSources ==
  {[text |-> StatementsText(stmts), refs |-> [i \in 1..Len(stmts) |-> stmts[i].abs]] :
     stmts \in SeqsUpTo(RefStatements, MaxRefs)}
    \cup {[text |-> << "c", "u", "b", "e", "(", "1", ")", ";" >>, refs |-> << >>],
          [text |-> << "i", "n", "c", "l", "u", "d", "e", " ", "<", ">" >>, refs |-> << >>],
          [text |-> << "i", "n", "c", "l", "u", "d", "e", " ", "l" >>, refs |-> << >>]}

\* The paths the scan is called with: a.scad (relative and absolute) and a
\* file that does not exist.
ScanArgs ==
  { << "a", ".", "s", "c", "a", "d" >>, FileA, << "/", "w", "/", "n", ".", "s", "c", "a", "d" >> }

\* parseScadDependencies(scadPath) is called (the module exports it).
Scan(scadPath) ==
  /\ last' = Step([kind |-> "scan", pc |-> "done", arg |-> scadPath,
                   deps |-> parseScadDependencies(fs, scadPath)], "start")
  /\ sent' = << >>
  /\ UNCHANGED << model, watcher, debounceTimer, chan, timeouts, fs, toolOk, clock, tasks,
                  hist >>

\* a.scad holds a source of ScadSources; l and m exist or not.
InitScan ==
  \E source \in ScadSources : \E others \in SUBSET {FileL, FileM} :
    /\ InitOn((FileA :> Utf8Encode(source.text)) @@ [f \in others |-> << 49 >>])
    /\ toolOk = FALSE

NextScan == \E scadPath \in ScanArgs : Scan(scadPath)

SpecScan == InitScan /\ [][NextScan]_vars

\* C21: the dependency scan always returns.  For a source that does not
\* exist it returns the empty sequence; for a.scad it returns, in the order
\* of the references of the source and with repetitions, the resolved paths
\* of those references that exist on the disk; it changes no state.
C21_ScanDependencies ==
  Ran("scan") =>
    /\ IF last[1].call.arg \in {<< "a", ".", "s", "c", "a", "d" >>, FileA}
       THEN \A source \in ScadSources :
              fs[FileA] = Utf8Encode(source.text)
                => last[1].call.deps = SelectSeq(source.refs, LAMBDA p : p \in DOMAIN fs)
       ELSE last[1].call.deps = << >>
    /\ ModelKept
    /\ watcher = last[1].pre.watcher

\* The scan of a source with two references to the same existing file has
\* just returned that file twice.
C21_Witness ==
  /\ Ran("scan")
  /\ last[1].call.deps = << FileL, FileL >>
  /\ FileM \notin DOMAIN fs

(***************************************************************************)
(* Resyncs that overlap, the watcher, and the frame of the operations.     *)
(***************************************************************************)

\* C22: a resync that was compiling while a resync that started later
\* installed its model replaces nothing of that model afterwards: neither
\* the path of the artifact when its compilation ends, nor the artifact and
\* its box when its read ends.
C22_ResyncsSerialized ==
  (Ran("sync") /\ last[1].call.overtaken = "sync" /\ last[1].call.during = "compile")
    => /\ ModelKept
       /\ currentStlPath = last[1].pre.path

\* The live watcher watches the source of the model, and besides it only l,
\* the file a.scad may refer to, and that only for a .scad source and when
\* l exists.
WatchesModel ==
  /\ (watcher = None) = (currentFile = None)
  /\ watcher # None =>
       /\ watcher[1][1] = currentFile[1]
       /\ \A k \in 2..Len(watcher[1]) :
            /\ watcher[1][k] = FileL
            /\ ~IsMesh(currentFile[1])
            /\ Exists(fs, FileL)

\* The last step left the watcher as it was, unless it was the install of an
\* Open or the end of the compilation of a resync; an Open that succeeds on
\* a mesh file installs a watcher of that file alone.
WatcherReplaced ==
  /\ (last # None /\ ~(Finished("open") /\ last[1].call.res.ok)
        /\ ~(Ran("sync") /\ last[1].from = "compile"))
       => watcher = last[1].pre.watcher
  /\ (Finished("open") /\ last[1].call.res.ok)
       => /\ watcher[1][1] = last[1].call.abs
          /\ IsMesh(last[1].call.abs) => watcher[1] = << last[1].call.abs >>

\* A write to an existing file that the live watcher does not watch arms no
\* timeout and leaves the debounce timer alone; a write to one it watches
\* arms the debounce timeout.
ChangeSchedules ==
  \A f \in {FileA, FileB, FileL} :
    (hist'.edits = hist.edits + 1 /\ Exists(fs, f) /\ fs'[f] # fs[f])
      => IF watcher # None /\ f \in Range(watcher[1])
         THEN /\ debounceTimer' # None /\ debounceTimer' # debounceTimer
              /\ \E tm \in timeouts' : /\ tm.id = debounceTimer'[1] /\ tm.fn = "debounce"
                                       /\ tm.left = DebounceMs
         ELSE UNCHANGED << timeouts, debounceTimer, tasks >>

\* C23: once a model is open one watcher is live, that of the Watch Set
\* installed last: it watches the source of the model and its dependencies,
\* and only an install replaces it.  A change to a file that only a replaced
\* Watch Set held schedules no resync.
C23_OneWatcherLive == [](WatchesModel /\ WatcherReplaced) /\ [][ChangeSchedules]_vars

\* Open(b.STL) has just replaced the model a.scad, whose Watch Set held
\* a.scad and l; the live watcher watches b.STL alone, and files may still
\* change.
C23_Witness ==
  /\ Finished("open") /\ last[1].call.res.ok
  /\ last[1].pre.watcher = Some(<< FileA, FileL >>)
  /\ watcher = Some(<< FileB >>)
  /\ hist.edits < MaxEdits

\* C25: at every suspension point the stored box is the box of the stored
\* artifact, and sourcePath, meshArtifact and boundingBox are all absent or
\* all present.
C25_BoxOfArtifact ==
  \/ currentFile = None /\ currentStlBuffer = None /\ lastBoundingBox = None
  \/ /\ currentFile # None /\ currentStlBuffer # None /\ lastBoundingBox # None
     /\ lastBoundingBox[1] = parseStlBoundingBox(currentStlBuffer[1])

\* A resync has just installed a new artifact while another call is
\* suspended.
C25_Witness ==
  /\ Finished("sync") /\ last[1].call.res.ok
  /\ tasks # << >>
  /\ currentStlBuffer # last[1].pre.buffer
  /\ lastBoundingBox # last[1].pre.box

\* The errors an Open fails with.
OpenErrors == {ErrNotFound, ErrUnsupported, ErrNoTool, ErrCompile}

\* C26: an Open that fails leaves sourcePath, meshArtifact, boundingBox and
\* the watcher as they were and broadcasts nothing.  So does every step of
\* an Open before its install, and an Open fails only in such a step and
\* only with one of the four errors.
C26_FailedOpenKeepsModel ==
  /\ (Ran("open") /\ last[1].from # "read")
       => /\ ModelKept
          /\ watcher = last[1].pre.watcher
          /\ sent = << >>
          /\ last[1].call.out = << >>
  /\ (Finished("open") /\ ~last[1].call.res.ok)
       => /\ last[1].call.res.error \in OpenErrors
          /\ last[1].from # "read"

\* An Open has just failed on a source that does not compile while an
\* earlier model was open and watched.
C26_Witness ==
  /\ Finished("open") /\ last[1].call.res.error = ErrCompile
  /\ last[1].pre.file # None
  /\ currentFile = last[1].pre.file
  /\ watcher # None

(***************************************************************************)
(* Responses and departures.                                               *)
(***************************************************************************)

\* The requests the last step completed.
CompletedNow ==
  {id \in DOMAIN promises :
     /\ promises[id].state # "pending"
     /\ id \in DOMAIN last[1].pre.promises
     /\ last[1].pre.promises[id].state = "pending"}

\* C24: a request is fulfilled only by an inbound message that carries its
\* identifier, and its result is that message.  A message completes at most
\* the request whose identifier it carries; a message that is no JSON, has
\* no identifier, or has one that is not in the table completes no request
\* and leaves the table as it was.
C24_ResolvedByMatchingId ==
  /\ \A id \in DOMAIN promises :
       promises[id].state = "fulfilled"
         => /\ promises[id].value # None
            /\ promises[id].value[1].requestId = Some(id)
  /\ Ran("message") =>
       /\ CompletedNow \subseteq {id \in DOMAIN last[1].pre.pending : CarriedId = Some(id)}
       /\ \A id \in CompletedNow :
            /\ promises[id].state = "fulfilled"
            /\ promises[id].value = JsonParse(last[1].call.raw)[1]
       /\ (CarriedId = None \/ CarriedId[1] \notin DOMAIN last[1].pre.pending)
            => /\ CompletedNow = {}
               /\ pendingRequests = last[1].pre.pending
  /\ (last # None /\ ~Ran("message")) =>
       \A id \in CompletedNow : promises[id].state = "rejected"

\* The response to request 2 has just fulfilled it while request 1 still
\* waits.
C24_Witness ==
  /\ Ran("message")
  /\ CarriedId = Some(2)
  /\ CompletedNow = {2}
  /\ 1 \in DOMAIN pendingRequests

\* C27: the departure of a peer removes that peer from the Peer Set and
\* nothing else: the other peers, the table, the promises and the timeouts
\* stay as they were, so a request sent to the departed peer still waits.
\* A request that was waiting is completed only by the step of an inbound
\* message or of its timeout.
C27_LeaveKeepsRequests ==
  /\ Ran("leave") =>
       /\ wsClients = SelectSeq(last[1].pre.clients, LAMBDA ws : ws # last[1].call.ws)
       /\ last[1].call.ws \in Range(last[1].pre.clients)
       /\ pendingRequests = last[1].pre.pending
       /\ promises = last[1].pre.promises
       /\ timeouts = last[1].pre.timeouts
  /\ (last # None /\ CompletedNow # {}) => (Ran("message") \/ Ran("timeout"))

\* A peer has just left while a request that was sent to it waits.
C27_Witness ==
  /\ Ran("leave")
  /\ \E id \in DOMAIN pendingRequests :
       /\ promises[id].peer = Some(last[1].call.ws)
       /\ promises[id].state = "pending"
====
